---- MODULE Spec2Model ----
(***************************************************************************)
(* PO/POT reconciliation scripts of knu_i18n_2025.                         *)
(*                                                                         *)
(* A catalog is what polib.pofile() returns: a metadata value (the header  *)
(* entry is turned into metadata and is not in the entry list) and the     *)
(* list of entries in file order.  Text that the code passes through       *)
(* str.strip() is a sequence of one-character strings, so that a blank     *)
(* (whitespace-only) value and a padded value are different from the empty *)
(* and the trimmed value.  msgstr_plural, a dict {0: s0, 1: s1, ...}, is   *)
(* the sequence <<s0, s1, ...>>; the empty dict is <<>>.                   *)
(***************************************************************************)
EXTENDS Integers, Sequences, FiniteSets, TLC

\* ------------------------------------------------------------------ bounds
MaxBase == 2        \* entries in the original / full PO
MaxTranslated == 2  \* entries in the translated / LLM PO
MaxRuns == 2        \* a merge and one re-run on its own output

\* ------------------------------------------------------- python / polib
None == "~None"     \* POEntry.msgctxt when the entry has no msgctxt line

RECURSIVE lstrip(_)
lstrip(s) ==
    IF s = <<>> THEN s
    ELSE IF Head(s) = " " THEN lstrip(Tail(s)) ELSE s

RECURSIVE rstrip(_)
rstrip(s) ==
    IF s = <<>> THEN s
    ELSE IF s[Len(s)] = " " THEN rstrip(SubSeq(s, 1, Len(s) - 1)) ELSE s

\* str.strip()
strip(s) == rstrip(lstrip(s))

\* truth value of a str
truthy(s) == s # <<>>

\* polib.POEntry(...) with the constructor's defaults
POEntry(msgid, msgstr, msgctxt, msgid_plural, occurrences, flags) ==
    [msgctxt |-> msgctxt, msgid |-> msgid, msgid_plural |-> msgid_plural,
     msgstr |-> msgstr, msgstr_plural |-> <<>>,
     flags |-> flags, comment |-> "", tcomment |-> "",
     occurrences |-> occurrences, obsolete |-> FALSE]

\* polib.POFile(): no metadata, no entries
NoMetadata == "none"
POFile == [metadata |-> NoMetadata, entries |-> <<>>]

\* One entry as POFile.save() writes it and pofile() reads it back:
\* msgstr is written only when msgstr_plural is empty; an obsolete entry is
\* written without its extracted comment and its occurrences.
written(e) ==
    [e EXCEPT !.msgstr = IF e.msgstr_plural # <<>> THEN <<>> ELSE @,
              !.comment = IF e.obsolete THEN "" ELSE @,
              !.occurrences = IF e.obsolete THEN <<>> ELSE @]

IsObsolete(e) == e.obsolete
IsActive(e) == ~e.obsolete

\* the entries of a list as they are written
written_all(entries) == [i \in DOMAIN entries |-> written(entries[i])]

\* POFile.save(): metadata, then the entries that are not obsolete in list
\* order, then the obsolete entries in list order.
save(po) ==
    [metadata |-> po.metadata,
     entries |-> written_all(SelectSeq(po.entries, IsActive))
                 \o written_all(SelectSeq(po.entries, IsObsolete))]

\* --------------------------------------------------------------- make_key
make_key(e) == <<e.msgctxt, e.msgid, e.msgid_plural>>

Keys(entries) == {make_key(entries[i]) : i \in DOMAIN entries}

\* {make_key(e): e for e in po}: a later entry replaces an earlier one
LastIndex(entries, k) ==
    CHOOSE i \in DOMAIN entries :
        /\ make_key(entries[i]) = k
        /\ \A j \in DOMAIN entries : make_key(entries[j]) = k => j <= i

Msgids(entries) == {entries[i].msgid : i \in DOMAIN entries}

\* {entry.msgid: entry for entry in llm}
LastIndexByMsgid(entries, m) ==
    CHOOSE i \in DOMAIN entries :
        /\ entries[i].msgid = m
        /\ \A j \in DOMAIN entries : entries[j].msgid = m => j <= i


\* ------------------------------------------ merge/merge_ai_translation.py
\* line 23: the scope of the merge
pot_keys(pot) == Keys(pot.entries)

\* line 39: "the original already has a translation, leave it alone"
orig_has_translation(o) == truthy(strip(o.msgstr))

\* line 43: the translated PO has no entry for the key (t is None, here the
\* key is not in trans_map) or its msgstr is blank
no_translation(translated, key) ==
    \/ key \notin Keys(translated.entries)
    \/ ~truthy(strip(translated.entries[LastIndex(translated.entries, key)].msgstr))

\* lines 48-49: the translation is inserted
insert_translation(o, t) ==
    [o EXCEPT !.msgstr = t.msgstr, !.msgstr_plural = t.msgstr_plural]

\* the loop goes over the keys of orig_map instead of the keys of the POT
work_keys_unscoped(orig, pot) == Keys(orig.entries)

\* lines 30-33: the keys the loop goes on with; a key of the POT that is
\* not in orig_map gets a warning and nothing else
work_keys(orig, pot) == pot_keys(pot) \cap Keys(orig.entries)

merge_translations(orig, pot, translated) ==
    LET orig_map(k) == orig.entries[LastIndex(orig.entries, k)]
        trans_map(k) == translated.entries[LastIndex(translated.entries, k)]
        warned == pot_keys(pot) \ Keys(orig.entries)
        work == work_keys(orig, pot)
        kept == {k \in work : orig_has_translation(orig_map(k))}
        lacking == {k \in work \ kept : no_translation(translated, k)}
        updated == work \ (kept \cup lacking)
        merged == [i \in DOMAIN orig.entries |->
                     LET k == make_key(orig.entries[i]) IN
                     IF k \in updated /\ i = LastIndex(orig.entries, k)
                     THEN insert_translation(orig.entries[i], trans_map(k))
                     ELSE orig.entries[i]]
    IN [output |-> save([orig EXCEPT !.entries = merged]),
        updated_count |-> Cardinality(updated),
        missing_count |-> Cardinality(lacking),
        warned |-> warned]

\* ------------------------------------------- merge/merge_translations.py
\* line 27: the header of the translated PO is ignored
entries_to_process(translated) ==
    SelectSeq(translated.entries, LAMBDA e : e.msgid # "")

\* lines 30 and 62: translated_map.get(key, "").strip()
translated_str(translated, key) ==
    LET es == entries_to_process(translated) IN
    strip(IF key \in Keys(es) THEN es[LastIndex(es, key)].msgstr ELSE <<>>)

\* msgctxt=e.msgctxt is left out of the constructor call
new_entry_without_msgctxt(e) ==
    POEntry(e.msgid, e.msgstr, None, e.msgid_plural, e.occurrences, e.flags)

\* lines 46-53
new_entry(e) ==
    POEntry(e.msgid, e.msgstr, e.msgctxt, e.msgid_plural, e.occurrences, e.flags)

\* line 61: only keys of the POT are candidates for replacement
replaceable(pot, key) == key \in Keys(pot.entries)

\* lines 56-69: what is appended to merged for one entry of the full PO
merged_entry(e, pot, translated) ==
    IF e.msgid = "" THEN new_entry(e)
    ELSE IF /\ replaceable(pot, make_key(e))
            /\ truthy(translated_str(translated, make_key(e)))
         THEN [new_entry(e) EXCEPT !.msgstr = translated_str(translated, make_key(e))]
         ELSE new_entry(e)

\* lines 61-67: the entry's msgid is recorded in the missing list
is_missing(e, pot, translated) ==
    /\ e.msgid # ""
    /\ replaceable(pot, make_key(e))
    /\ ~truthy(translated_str(translated, make_key(e)))

merge_po_files(full, pot, translated) ==
    LET merged == [metadata |-> full.metadata,
                   entries |-> [i \in DOMAIN full.entries |->
                                  merged_entry(full.entries[i], pot, translated)]]
        lost == SelectSeq(full.entries, LAMBDA e : is_missing(e, pot, translated))
    IN [output |-> save(merged),
        missing |-> [i \in DOMAIN lost |-> lost[i].msgid]]

\* ------------------------------------------------------------ merge_po.py
\* lines 41-45: the entry gets the LLM's msgstr
llm_updates(entry, llm) ==
    /\ entry.msgid \in Msgids(llm.entries)
    /\ ~truthy(strip(entry.msgstr))
    /\ truthy(strip(llm.entries[LastIndexByMsgid(llm.entries, entry.msgid)].msgstr))

\* lines 51-59
llm_update(entry, llm_entry) ==
    [entry EXCEPT !.msgstr = llm_entry.msgstr,
                  !.comment = IF llm_entry.comment # "" THEN llm_entry.comment ELSE @,
                  !.tcomment = IF llm_entry.tcomment # "" THEN llm_entry.tcomment ELSE @,
                  !.flags = IF llm_entry.flags # {} THEN llm_entry.flags ELSE @]

\* the backup is taken from the LLM file
llm_metadata(target_file, llm) == llm.metadata

\* lines 32 and 67: the metadata saved is the target file's
original_metadata(target_file, llm) == target_file.metadata

merge_po(target_file, llm) ==
    LET llm_dict(m) == llm.entries[LastIndexByMsgid(llm.entries, m)]
        merged == [i \in DOMAIN target_file.entries |->
                     IF llm_updates(target_file.entries[i], llm)
                     THEN llm_update(target_file.entries[i],
                                     llm_dict(target_file.entries[i].msgid))
                     ELSE target_file.entries[i]]
    IN [output |-> save([metadata |-> original_metadata(target_file, llm),
                         entries |-> merged]),
        updated_count |-> Cardinality({i \in DOMAIN target_file.entries :
                                          llm_updates(target_file.entries[i], llm)})]


\* ----------------------------------------------------------------- state
VARIABLES
    original_po,    \* the original / full / target PO file (base of the merge)
    pot_file,       \* the extracted POT: the scope of the merge
    translated_po,  \* the translated / LLM PO file
    output,         \* the file written by the last script, as pofile() reads it
    updated_count,  \* merge_translations, merge_po.py
    missing_count,  \* merge_translations
    missing,        \* merge_po_files: the returned list of msgids
    warned,         \* merge_translations: keys of the "[WARNING]" lines
    script,         \* the script that wrote output, "none" before a run
    first_script,   \* the script that is being re-run, "none" in the first run
    run             \* 1 in the first run, 2 when the base is a previous output

\* the extractors and commit_diff.py
VARIABLES
    trans_po,       \* the translated PO given to filter_to_pot.py / filter_pot.py
    fallback_pot,   \* filter_pot.py: the file at build_fallback_pot_path(...)
    log,            \* the kinds of lines printed by the last script
    stage,          \* position in a pipeline of scripts, "off" when not used
    new_pot,        \* commit_diff.py: the POT of the target commit
    old_pot,        \* commit_diff.py: the POT of the base commit
    diff_pot,       \* commit_diff.py: the written diff catalog
    count           \* commit_diff.py: the value returned by extract_diff

merge_vars == <<original_po, pot_file, translated_po, output, updated_count,
                missing_count, missing, warned, script, first_script, run>>

extract_vars == <<trans_po, fallback_pot, log, stage>>
merge_vars_but_script ==
    <<original_po, pot_file, translated_po, output, updated_count,
      missing_count, missing, warned, first_script, run>>

diff_vars == <<new_pot, old_pot, diff_pot, count>>

\* the translators, the glossary tools and the git steps of commit_diff.py
VARIABLES
    glossary,       \* the glossary: a sequence of pairs <<src, tgt>>
    catalog,        \* po_translate_local_llama.py: po, the catalog in memory
    work,           \* the work list, in the order of submission
    results,        \* the results received so far, in the order of completion
    pc,             \* the position of a script in its code, "off" when not used
    attempt,        \* the attempts a request has made
    repo,           \* commit_diff.py: the commit that is checked out
    src_text,       \* a text handed to a translator
    args            \* the command line options of a script

tool_vars == <<glossary, catalog, work, results, pc, attempt, repo, src_text, args>>

vars == <<original_po, pot_file, translated_po, output, updated_count,
          missing_count, missing, warned, script, first_script, run,
          trans_po, fallback_pot, log, stage, new_pot, old_pot, diff_pot, count,
          glossary, catalog, work, results, pc, attempt, repo, src_text, args>>

\* ---------------------------------------------------------------- inputs
Blank == <<" ">>
BaseText == <<"x">>
LlmText == <<"y">>
PaddedLlmText == <<" ", "z">>

\* what xgettext and a reviewer leave on an entry
Decorated(e) ==
    [e EXCEPT !.flags = {"fuzzy"}, !.comment = "extracted", !.tcomment = "note",
              !.occurrences = << <<"doc.rst", 7>> >>]

Singular(msgctxt, msgid, msgstr) == POEntry(msgid, msgstr, msgctxt, "", <<>>, {})

Plural(msgctxt, msgid, msgid_plural, msgstr_plural) ==
    [POEntry(msgid, <<>>, msgctxt, msgid_plural, <<>>, {})
        EXCEPT !.msgstr_plural = msgstr_plural]

Obsolete(e) == [e EXCEPT !.obsolete = TRUE]

\* entries of the base catalog
BasePool ==
    {Singular(None, "a", <<>>), Singular(None, "a", Blank),
     Singular(None, "a", BaseText),
     Decorated(Singular("c", "a", <<>>)),
     Obsolete(Singular("c", "a", BaseText)),
     Plural(None, "b", "bs", << <<>>, <<>> >>),
     Decorated(Plural(None, "b", "bs", << BaseText, <<>> >>))}

\* entries of the extracted POT, in the order of the file
PotPool ==
    << Singular(None, "a", <<>>), Singular("c", "a", <<>>),
       Plural(None, "b", "bs", << <<>>, <<>> >>) >>

\* entries of the translated PO
TranslatedPool ==
    {Singular(None, "a", <<>>),
     Decorated(Singular(None, "a", LlmText)),
     Singular("c", "a", PaddedLlmText),
     Singular(None, "b", LlmText),
     [Plural(None, "b", "bs", <<>>) EXCEPT !.msgstr = LlmText],
     Plural(None, "b", "bs", << LlmText, Blank >>)}

BaseMetadata == "Language: ko"
PotMetadata == "POT-Creation"
LlmMetadata == "Language: ko, by LLM"

SeqsUpTo(S, n) == UNION {[1..m -> S] : m \in 0..n}

UniqueKeys(entries) ==
    \A i, j \in DOMAIN entries :
        make_key(entries[i]) = make_key(entries[j]) => i = j

\* gettext writers put the obsolete entries after the others
ObsoleteLast(entries) ==
    \A i, j \in DOMAIN entries :
        i < j /\ entries[i].obsolete => entries[j].obsolete

\* the entries of PotPool whose index is in I, in the order of PotPool
RECURSIVE Pick(_, _)
Pick(I, from) ==
    IF from > Len(PotPool) THEN <<>>
    ELSE (IF from \in I THEN <<PotPool[from]>> ELSE <<>>) \o Pick(I, from + 1)

BaseFiles ==
    {[metadata |-> BaseMetadata, entries |-> s] :
        s \in {q \in SeqsUpTo(BasePool, MaxBase) : UniqueKeys(q) /\ ObsoleteLast(q)}}

PotFiles ==
    {[metadata |-> PotMetadata, entries |-> Pick(I, 1)] : I \in SUBSET DOMAIN PotPool}

TranslatedFiles ==
    {[metadata |-> LlmMetadata, entries |-> s] :
        s \in {q \in SeqsUpTo(TranslatedPool, MaxTranslated) : UniqueKeys(q)}}

NoFile == POFile

\* a path at which there is no file
NoSuchFile == [metadata |-> "no such file", entries |-> <<>>]

\* the extractors are not run
ExtractOff ==
    /\ trans_po = NoSuchFile
    /\ fallback_pot = NoSuchFile
    /\ log = {}
    /\ stage = "off"

\* commit_diff.py is not run
ToolsOff ==
    /\ glossary = <<>>
    /\ catalog = NoFile
    /\ work = <<>>
    /\ results = <<>>
    /\ pc = "off"
    /\ attempt = 0
    /\ repo = "none"
    /\ src_text = <<>>
    /\ args = {}

DiffOff ==
    /\ new_pot = NoSuchFile
    /\ old_pot = NoSuchFile
    /\ diff_pot = NoSuchFile
    /\ count = 0

Init ==
    /\ ExtractOff
    /\ DiffOff
    /\ ToolsOff
    /\ original_po \in BaseFiles
    /\ pot_file \in PotFiles
    /\ translated_po \in TranslatedFiles
    /\ output = NoFile
    /\ updated_count = 0
    /\ missing_count = 0
    /\ missing = <<>>
    /\ warned = {}
    /\ script = "none"
    /\ first_script = "none"
    /\ run = 1

\* --------------------------------------------------------------- actions
\* python merge/merge_ai_translation.py original pot translated out
MergeTranslations ==
    /\ script = "none"
    /\ first_script \in {"none", "merge_translations"}
    /\ LET r == merge_translations(original_po, pot_file, translated_po) IN
        /\ output' = r.output
        /\ updated_count' = r.updated_count
        /\ missing_count' = r.missing_count
        /\ warned' = r.warned
    /\ script' = "merge_translations"
    /\ UNCHANGED <<original_po, pot_file, translated_po, missing, first_script, run>>
    /\ UNCHANGED <<extract_vars, diff_vars, tool_vars>>

\* python merge/merge_translations.py full pot translated out
MergePoFiles ==
    /\ script = "none"
    /\ first_script \in {"none", "merge_po_files"}
    /\ LET r == merge_po_files(original_po, pot_file, translated_po) IN
        /\ output' = r.output
        /\ missing' = r.missing
    /\ script' = "merge_po_files"
    /\ UNCHANGED <<original_po, pot_file, translated_po, updated_count,
                   missing_count, warned, first_script, run>>
    /\ UNCHANGED <<extract_vars, diff_vars, tool_vars>>

\* python merge_po.py, one language of the loop
MergePo ==
    /\ script = "none"
    /\ first_script \in {"none", "merge_po"}
    /\ LET r == merge_po(original_po, translated_po) IN
        /\ output' = r.output
        /\ updated_count' = r.updated_count
    /\ script' = "merge_po"
    /\ UNCHANGED <<original_po, pot_file, translated_po, missing_count,
                   missing, warned, first_script, run>>
    /\ UNCHANGED <<extract_vars, diff_vars, tool_vars>>

\* the written file is given to the next run of the same script as its base,
\* with the same POT and the same translated PO
Rerun ==
    /\ script # "none"
    /\ run < MaxRuns
    /\ original_po' = output
    /\ output' = NoFile
    /\ updated_count' = 0
    /\ missing_count' = 0
    /\ missing' = <<>>
    /\ warned' = {}
    /\ first_script' = script
    /\ script' = "none"
    /\ run' = run + 1
    /\ UNCHANGED <<pot_file, translated_po>>
    /\ UNCHANGED <<extract_vars, diff_vars, tool_vars>>

Next == MergeTranslations \/ MergePoFiles \/ MergePo \/ Rerun

Spec == Init /\ [][Next]_vars


\* ------------------------------------------------------------ vocabulary
nonblank(s) == strip(s) # <<>>

\* "Translated": singular, msgstr non-blank; plural, some slot non-blank
Translated(e) ==
    IF e.msgid_plural # ""
    THEN \E n \in DOMAIN e.msgstr_plural : nonblank(e.msgstr_plural[n])
    ELSE nonblank(e.msgstr)

\* the translated PO holds a non-blank translation for the key
Supplies(po, k) ==
    \E i \in DOMAIN po.entries :
        /\ make_key(po.entries[i]) = k
        /\ \/ nonblank(po.entries[i].msgstr)
           \/ /\ k[3] # ""
              /\ \E n \in DOMAIN po.entries[i].msgstr_plural :
                    nonblank(po.entries[i].msgstr_plural[n])

Supplied(po, k) == po.entries[LastIndex(po.entries, k)]

InScope(e) == make_key(e) \in Keys(pot_file.entries)

Base == original_po.entries
Out == output.entries

\* ------------------------------------------------------------------ C1
\* C1: merge_po_files leaves the non-blank msgstr of a base entry as it is,
\* whatever the translated PO holds and also when the key is in the POT.
C1_PoFilesKeepsTranslation ==
    script = "merge_po_files" =>
        \A i \in DOMAIN Base :
            nonblank(Base[i].msgstr) =>
                i \in DOMAIN Out /\ Out[i].msgstr = Base[i].msgstr

\* ------------------------------------------------------------------ C2
\* C2: merge_translations and merge_po.py leave msgstr and msgstr_plural of
\* every Translated base entry (singular or plural) as they are.
C2_TranslatedEntriesKept ==
    script \in {"merge_translations", "merge_po"} =>
        \A i \in DOMAIN Base :
            Translated(Base[i]) =>
                /\ i \in DOMAIN Out
                /\ Out[i].msgstr = Base[i].msgstr
                /\ Out[i].msgstr_plural = Base[i].msgstr_plural

C4_PoFilesOutOfScopeUntouched ==
    script = "merge_po_files" =>
        \A i \in DOMAIN Base :
            (Base[i].msgid # "" /\ ~InScope(Base[i])) =>
                i \in DOMAIN Out /\ Out[i] = Base[i]

\* ------------------------------------------------------------------ C5
\* C5: merge_translations fills every blank in-scope entry for which the
\* translated PO supplies a non-blank msgstr or plural slot.
C5_SuppliedTranslationInserted ==
    script = "merge_translations" =>
        \A i \in DOMAIN Base :
            (/\ InScope(Base[i])
             /\ ~Translated(Base[i]) /\ ~nonblank(Base[i].msgstr)
             /\ Supplies(translated_po, make_key(Base[i]))) =>
                /\ i \in DOMAIN Out
                /\ Out[i].msgstr = Supplied(translated_po, make_key(Base[i])).msgstr
                /\ Out[i].msgstr_plural =
                       Supplied(translated_po, make_key(Base[i])).msgstr_plural
                /\ updated_count >= 1

\* ------------------------------------------------------------------ C6
\* C6: missing_count is the number of blank in-scope base entries for which
\* the translated PO supplies nothing, updated_count the number of blank
\* in-scope entries for which it supplies a translation.
C6_CountsPartitionScope ==
    script = "merge_translations" =>
        LET blank == {i \in DOMAIN Base :
                        InScope(Base[i]) /\ ~Translated(Base[i])
                        /\ ~nonblank(Base[i].msgstr)}
            lacking == {i \in blank : ~Supplies(translated_po, make_key(Base[i]))}
        IN /\ missing_count = Cardinality(lacking)
           /\ updated_count = Cardinality(blank \ lacking)
           /\ \A i \in lacking : Out[i] = Base[i]

\* ------------------------------------------------------------------ C7
\* C7: an in-scope entry that has a translation in the base is not in the
\* missing list of merge_po_files.
C7_TranslatedNotReportedMissing ==
    script = "merge_po_files" =>
        \A i \in DOMAIN Base :
            (InScope(Base[i]) /\ nonblank(Base[i].msgstr)) =>
                \A n \in DOMAIN missing : missing[n] # Base[i].msgid

C9_MetadataFromBase ==
    script # "none" =>
        /\ output.metadata = original_po.metadata
        /\ output.metadata # translated_po.metadata
        /\ output.metadata # pot_file.metadata

\* merge_po.py has updated an entry from the LLM file
C9_Witness ==
    /\ script = "merge_po"
    /\ updated_count > 0
    /\ translated_po.metadata # original_po.metadata
    /\ output.entries # original_po.entries

\* ----------------------------------------------------------------- C10
\* C10: a second run of merge_translations or merge_po.py on the output of
\* the first changes nothing and counts no update.
C10_SecondRunIdle ==
    (run = 2 /\ script = first_script
        /\ script \in {"merge_translations", "merge_po"}) =>
            /\ output = original_po
            /\ updated_count = 0

\* the same for merge_translations alone
MergeTranslationsSecondRunIdle ==
    (run = 2 /\ script = first_script /\ script = "merge_translations") =>
            /\ output = original_po
            /\ updated_count = 0

\* C2 for merge_po.py alone
MergePoTranslatedEntriesKept ==
    script = "merge_po" =>
        \A i \in DOMAIN Base :
            Translated(Base[i]) =>
                /\ i \in DOMAIN Out
                /\ Out[i].msgstr = Base[i].msgstr
                /\ Out[i].msgstr_plural = Base[i].msgstr_plural


\* ================================================= filter/filter_to_pot.py
\* lines 6-20
is_translated(entry) ==
    IF entry.msgid = "" THEN FALSE
    ELSE IF entry.obsolete THEN FALSE
    ELSE IF entry.msgid_plural # ""
         THEN \E n \in DOMAIN entry.msgstr_plural :
                  truthy(strip(entry.msgstr_plural[n]))
         ELSE truthy(strip(entry.msgstr))

\* lines 32-35
translated_keys(trans) ==
    {make_key(trans.entries[i]) :
        i \in {j \in DOMAIN trans.entries : is_translated(trans.entries[j])}}

\* lines 57-62: the copy of an entry that goes into the template
template_entry(e) ==
    [e EXCEPT !.msgstr = <<>>, !.msgstr_plural = <<>>, !.flags = @ \ {"fuzzy"}]

\* lines 46-65: the entries appended to result
remaining_entries(src_po, trans) ==
    LET kept == SelectSeq(src_po.entries,
                    LAMBDA e : e.msgid = "" \/ make_key(e) \notin translated_keys(trans))
    IN [i \in DOMAIN kept |->
          IF kept[i].msgid = "" THEN kept[i] ELSE template_entry(kept[i])]

\* lines 26-70: main(src_po_path, translated_po_path, out_pot_path)
filter_to_pot(src_po, trans) ==
    LET entries == remaining_entries(src_po, trans) IN
    [out_pot |-> save([metadata |-> src_po.metadata, entries |-> entries]),
     kept_count |-> Cardinality({i \in DOMAIN entries : entries[i].msgid # ""})]

\* ------------------------------------------------- the translation phase
\* scripts/po_translate_local_llama.py lines 220-231: the write-back of one
\* result; a plural entry gets its slots 0 and 1, a singular one its msgstr
write_back(e, text) ==
    [e EXCEPT !.msgstr = IF e.msgid_plural # "" THEN @ ELSE text,
              !.msgstr_plural = IF e.msgid_plural # "" THEN <<text, text>> ELSE @,
              !.flags = @ \ {"fuzzy"}]

\* lines 197-233: the PO the translator saves when it got a result for the
\* entries of the POT whose index is in done; the others stay as they are
translated_file(pot, done) ==
    save([pot EXCEPT !.entries =
            [i \in DOMAIN pot.entries |->
                IF i \in done THEN write_back(pot.entries[i], LlmText)
                ELSE pot.entries[i]]])

\* ------------------------------------------------------- the cycle's inputs
CyclePool ==
    {Singular(None, "a", <<>>), Singular(None, "a", BaseText),
     Singular("", "a", <<>>),
     Decorated(Singular("c", "a", <<>>)),
     Obsolete(Singular("c", "a", BaseText)),
     Plural(None, "b", "bs", << <<>>, <<>> >>),
     Plural(None, "b", "bs", << BaseText, <<>> >>)}

CycleTransPool ==
    {Singular(None, "a", BaseText), Singular("c", "a", <<>>),
     Obsolete(Singular("c", "a", BaseText)),
     Plural(None, "b", "bs", << BaseText, <<>> >>)}

CycleFiles ==
    {[metadata |-> BaseMetadata, entries |-> s] :
        s \in {q \in SeqsUpTo(CyclePool, MaxBase) : UniqueKeys(q) /\ ObsoleteLast(q)}}

CycleTransFiles ==
    {[metadata |-> LlmMetadata, entries |-> s] :
        s \in {q \in SeqsUpTo(CycleTransPool, MaxTranslated) :
                  UniqueKeys(q) /\ ObsoleteLast(q)}}

CycleInit ==
    /\ original_po \in CycleFiles
    /\ trans_po \in {original_po} \cup CycleTransFiles
    /\ pot_file = NoFile
    /\ translated_po = NoFile
    /\ output = NoFile
    /\ updated_count = 0
    /\ missing_count = 0
    /\ missing = <<>>
    /\ warned = {}
    /\ script = "none"
    /\ first_script = "none"
    /\ run = 1
    /\ fallback_pot = NoSuchFile
    /\ log = {}
    /\ stage = "start"
    /\ DiffOff
    /\ ToolsOff

\* python filter/filter_to_pot.py original_po trans_po pot_file
FilterToPot ==
    /\ stage = "start"
    /\ pot_file' = filter_to_pot(original_po, trans_po).out_pot
    /\ stage' = "extracted"
    /\ script' = "filter_to_pot"
    /\ UNCHANGED <<original_po, translated_po, output, updated_count,
                   missing_count, missing, warned, first_script, run,
                   trans_po, fallback_pot, log, diff_vars, tool_vars>>

\* a translator works on the POT and is stopped at any point
Translate ==
    /\ stage \in {"extracted", "extracted again"}
    /\ \E done \in SUBSET DOMAIN pot_file.entries :
          translated_po' = translated_file(pot_file, done)
    /\ stage' = IF stage = "extracted" THEN "translated" ELSE "translated again"
    /\ UNCHANGED <<original_po, pot_file, output, updated_count, missing_count,
                   missing, warned, script, first_script, run,
                   trans_po, fallback_pot, log, diff_vars, tool_vars>>

\* python merge/merge_ai_translation.py original_po pot_file translated_po output
MergeBack ==
    /\ stage \in {"translated", "translated again"}
    /\ LET r == merge_translations(original_po, pot_file, translated_po) IN
        /\ output' = r.output
        /\ updated_count' = r.updated_count
        /\ missing_count' = r.missing_count
        /\ warned' = r.warned
    /\ stage' = IF stage = "translated" THEN "merged" ELSE "merged again"
    /\ script' = "merge_translations"
    /\ UNCHANGED <<original_po, pot_file, translated_po, missing, first_script,
                   run, trans_po, fallback_pot, log, diff_vars, tool_vars>>

\* the merged catalog replaces the catalog and the remaining work is
\* extracted from it: filter_to_pot.py output output pot_file
FilterAgain ==
    /\ stage = "merged"
    /\ original_po' = output
    /\ trans_po' = output
    /\ pot_file' = filter_to_pot(output, output).out_pot
    /\ stage' = "extracted again"
    /\ script' = "filter_to_pot"
    /\ run' = run + 1
    /\ UNCHANGED <<translated_po, output, updated_count, missing_count,
                   missing, warned, first_script, fallback_pot, log, diff_vars, tool_vars>>

CycleNext == FilterToPot \/ Translate \/ MergeBack \/ FilterAgain

CycleSpec == CycleInit /\ [][CycleNext]_vars

\* ------------------------------------------------------------------ C11
\* the translated file given to the extractor holds no translation
NoTranslations(po) ==
    \A i \in DOMAIN po.entries : ~is_translated(po.entries[i])

\* the catalog was extracted against a file without translations, a result
\* was produced and merged back
RoundTripDone == stage = "merged" /\ NoTranslations(trans_po)

\* the extracted keys that were blank in the base and for which the result
\* holds no non-blank translation
AbsentFromResult ==
    {k \in Keys(pot_file.entries) :
        /\ \E i \in DOMAIN Base : make_key(Base[i]) = k /\ ~Translated(Base[i])
        /\ ~Supplies(translated_po, k)}

\* C11: after extracting against a file without translations and merging a
\* result back, every entry that was blank, singular or plural, and has a
\* translation in the result is filled, and missing_count is the number of
\* extracted entries absent from the result.
C11_RoundTripFillsBlanks ==
    RoundTripDone =>
        /\ \A i \in DOMAIN Base :
              (~Translated(Base[i]) /\ Supplies(translated_po, make_key(Base[i])))
                  => Translated(Out[i])
        /\ missing_count = Cardinality(AbsentFromResult)

\* the same for singular entries alone, which the merge does fill
RoundTripFillsSingular ==
    RoundTripDone =>
        \A i \in DOMAIN Base :
            (/\ Base[i].msgid_plural = ""
             /\ ~Translated(Base[i])
             /\ Supplies(translated_po, make_key(Base[i])))
                => Translated(Out[i])

\* ------------------------------------------------------------------ C12
\* the keys of the entries of a catalog that still await a translation
UntranslatedKeys(po) ==
    {make_key(po.entries[i]) :
        i \in {j \in DOMAIN po.entries : ~Translated(po.entries[j])}}

\* a merge step of the cycle
MergeStep == stage \in {"translated", "translated again"} /\ stage' \in {"merged", "merged again"}

\* the second extraction of a cycle that began by extracting the catalog
\* against itself
NextExtraction ==
    stage = "merged" /\ trans_po = original_po /\ stage' = "extracted again"

\* the result merged in this cycle held a non-blank translation for every
\* extracted entry
AllSupplied == \A k \in Keys(pot_file.entries) : Supplies(translated_po, k)

\* a merge leaves no entry untranslated that was not untranslated before
UntranslatedShrinks ==
    [][MergeStep => UntranslatedKeys(output') \subseteq UntranslatedKeys(original_po)]_vars

\* a merge leaves an entry that has a translation as it is
FilledEntriesStay ==
    [][MergeStep =>
        \A i \in DOMAIN Base : Translated(Base[i]) => output'.entries[i] = Base[i]]_vars

\* C12: the cycle extract, translate a subset, merge converges: each merge
\* shrinks the set of untranslated entries and leaves filled entries alone,
\* and once a non-blank translation was supplied for every extracted entry
\* the next extraction holds no entry.
C12_CycleConverges ==
    [][/\ MergeStep =>
            /\ UntranslatedKeys(output') \subseteq UntranslatedKeys(original_po)
            /\ \A i \in DOMAIN Base :
                  Translated(Base[i]) => output'.entries[i] = Base[i]
       /\ (NextExtraction /\ AllSupplied) => pot_file'.entries = <<>>]_vars

\* ========================================================== filter_pot.py
\* lines 9-23
is_untranslated(entry) ==
    IF entry.msgid = "" THEN FALSE
    ELSE IF entry.obsolete THEN FALSE
    ELSE IF entry.msgid_plural # ""
         THEN ~ \E n \in DOMAIN entry.msgstr_plural :
                    truthy(strip(entry.msgstr_plural[n]))
         ELSE ~ truthy(strip(entry.msgstr))

\* a file polib.pofile() cannot parse
InvalidFile == [metadata |-> "not a PO file", entries |-> <<>>]

\* open(out_pot_path, "w").close(): a file of no bytes, which reads back as
\* a catalog with no header and no entries
EmptyFile == POFile

\* lines 78-80 and 105-107
cleared_entry(e) == [e EXCEPT !.msgstr = <<>>, !.msgstr_plural = <<>>]

\* lines 72-84 and 99-111: result of the extraction from one catalog
untranslated_pot(po) ==
    LET kept == SelectSeq(po.entries, is_untranslated) IN
    save([metadata |-> po.metadata,
          entries |-> [i \in DOMAIN kept |-> cleared_entry(kept[i])]])

\* lines 38-113: main(translated_po_path, out_pot_path); fallback is the file
\* at build_fallback_pot_path(translated_po_path)
filter_pot(trans, fallback) ==
    IF trans = NoSuchFile
    THEN IF fallback = NoSuchFile
         THEN [out_pot |-> EmptyFile,
               log |-> {"[!] Translated PO not found", "[=] Trying fallback POT",
                        "[ERROR] Neither translated_po nor fallback POT exists.",
                        "[+] Created empty POT"}]
         ELSE IF fallback = InvalidFile
         THEN [out_pot |-> EmptyFile,
               log |-> {"[!] Translated PO not found", "[=] Trying fallback POT",
                        "[ERROR] Fallback POT is invalid. Creating empty POT."}]
         ELSE [out_pot |-> untranslated_pot(fallback),
               log |-> {"[!] Translated PO not found", "[=] Trying fallback POT",
                        "[+] Generated POT from fallback source",
                        "[*] Untranslated entries"}]
    ELSE IF trans = InvalidFile
         THEN [out_pot |-> EmptyFile,
               log |-> {"[ERROR] Cannot read translated_po. Creating empty POT."}]
         ELSE [out_pot |-> untranslated_pot(trans),
               log |-> {"[+] POT saved", "[*] Untranslated entries"}]

\* ------------------------------------------------------ filter_pot's inputs
FilterPotFiles == {NoSuchFile, InvalidFile} \cup CycleFiles

FilterPotInit ==
    /\ trans_po \in FilterPotFiles
    /\ fallback_pot \in FilterPotFiles
    /\ original_po = NoFile
    /\ pot_file = NoFile
    /\ translated_po = NoFile
    /\ output = NoFile
    /\ updated_count = 0
    /\ missing_count = 0
    /\ missing = <<>>
    /\ warned = {}
    /\ script = "none"
    /\ first_script = "none"
    /\ run = 1
    /\ log = {}
    /\ stage = "start"
    /\ DiffOff
    /\ ToolsOff

\* python filter_pot.py: main(trans_po, out_pot)
FilterPot ==
    /\ stage = "start"
    /\ LET r == filter_pot(trans_po, fallback_pot) IN
        /\ pot_file' = r.out_pot
        /\ log' = r.log
    /\ stage' = "filtered"
    /\ script' = "filter_pot"
    /\ UNCHANGED <<original_po, translated_po, output, updated_count,
                   missing_count, missing, warned, first_script, run,
                   trans_po, fallback_pot, diff_vars, tool_vars>>

FilterPotNext == FilterPot

FilterPotSpec == FilterPotInit /\ [][FilterPotNext]_vars

\* =============================================== merge/merge_translations.py
\* lines 10-18: is_translated of merge_translations.py
merge_is_translated(entry) ==
    IF entry.msgid = "" THEN TRUE
    ELSE IF entry.obsolete THEN TRUE
    ELSE IF entry.msgid_plural # ""
         THEN \E n \in DOMAIN entry.msgstr_plural :
                  truthy(strip(entry.msgstr_plural[n]))
         ELSE truthy(strip(entry.msgstr))

\* ------------------------------------------------------------------ C13
\* header and obsolete entries
Exempt(e) == e.msgid = "" \/ e.obsolete

\* the entries the extractor reads
InputEntries ==
    {trans_po.entries[i] : i \in DOMAIN trans_po.entries}
        \cup {fallback_pot.entries[i] : i \in DOMAIN fallback_pot.entries}

\* C13: the three predicates are one classification: a header or obsolete
\* entry is reported neither translated nor untranslated by any of them, and
\* for every other entry all three agree with "msgstr non-blank or, for a
\* plural entry, a slot non-blank".
C13_OneClassification ==
    \A e \in InputEntries :
        IF Exempt(e)
        THEN ~is_translated(e) /\ ~is_untranslated(e) /\ ~merge_is_translated(e)
        ELSE /\ is_translated(e) = Translated(e)
             /\ merge_is_translated(e) = Translated(e)
             /\ is_untranslated(e) = ~Translated(e)

\* the two predicates of the extractors do agree and exempt these entries
ExtractorsClassifyAlike ==
    \A e \in InputEntries :
        IF Exempt(e)
        THEN ~is_translated(e) /\ ~is_untranslated(e)
        ELSE is_translated(e) = Translated(e) /\ is_untranslated(e) = ~Translated(e)

\* entries that are not exempt are classified alike by all three
NonExemptClassifiedAlike ==
    \A e \in InputEntries :
        ~Exempt(e) =>
            /\ is_translated(e) = Translated(e)
            /\ merge_is_translated(e) = Translated(e)
            /\ is_untranslated(e) = ~Translated(e)

\* ------------------------------------------------------------------ C14
\* the source entries the extractor is to output: the key is not in the
\* translated file, or it is there as an entry that awaits a translation
Remaining(src, trans) ==
    SelectSeq(src.entries,
        LAMBDA e :
            \/ make_key(e) \notin Keys(trans.entries)
            \/ /\ ~Exempt(trans.entries[LastIndex(trans.entries, make_key(e))])
               /\ ~Translated(trans.entries[LastIndex(trans.entries, make_key(e))]))

\* the keys of a list of entries in the order of the list
KeySeq(entries) == [i \in DOMAIN entries |-> make_key(entries[i])]

FirstExtraction == stage = "extracted"

\* C14: filter_to_pot.main outputs, in source order, exactly the source
\* entries whose key is absent from the translated file or Untranslated
\* there, none whose key is Translated or obsolete there, and the header of
\* the source.
C14_ExactlyTheRemainingWork ==
    FirstExtraction =>
        /\ KeySeq(pot_file.entries) = KeySeq(Remaining(original_po, trans_po))
        /\ pot_file.metadata = original_po.metadata

\* what does hold: entries whose key is Translated in the translated file
\* are left out, all others are output in source order
LeavesOutTranslatedKeys ==
    FirstExtraction =>
        /\ KeySeq(pot_file.entries) =
              KeySeq(SelectSeq(original_po.entries,
                  LAMBDA e : ~ \E i \in DOMAIN trans_po.entries :
                                  /\ make_key(trans_po.entries[i]) = make_key(e)
                                  /\ ~Exempt(trans_po.entries[i])
                                  /\ Translated(trans_po.entries[i])))
        /\ pot_file.metadata = original_po.metadata

\* ------------------------------------------------------------------ C15
\* an entry as a translation request: no translation, not fuzzy
IsTemplate(e) ==
    e.msgstr = <<>> /\ e.msgstr_plural = <<>> /\ "fuzzy" \notin e.flags

\* C15: every entry written by filter_pot.main, on the normal and on the
\* fallback path, has an empty msgstr, an empty msgstr_plural and no fuzzy
\* flag (as the entries written by filter_to_pot.main have).
C15_ExtractedEntriesAreTemplates ==
    stage = "filtered" =>
        \A i \in DOMAIN pot_file.entries : IsTemplate(pot_file.entries[i])

\* filter_to_pot.main does write templates only
FilterToPotWritesTemplates ==
    stage \in {"extracted", "extracted again"} =>
        \A i \in DOMAIN pot_file.entries : IsTemplate(pot_file.entries[i])

\* filter_pot.main clears the translation of what it writes
FilterPotClearsTranslations ==
    stage = "filtered" =>
        \A i \in DOMAIN pot_file.entries :
            pot_file.entries[i].msgstr = <<>> /\ pot_file.entries[i].msgstr_plural = <<>>

\* ------------------------------------------------------------------ C16
\* the source taken as fully untranslated: every entry of it that is neither
\* header nor obsolete, with its translation cleared
FullyUntranslated(src) ==
    LET live == SelectSeq(src.entries, LAMBDA e : ~Exempt(e)) IN
    save([metadata |-> src.metadata,
          entries |-> [i \in DOMAIN live |-> cleared_entry(live[i])]])

TranslatedPoMissing == stage = "filtered" /\ trans_po = NoSuchFile

\* C16: when the translated PO does not exist, filter_pot.main does not fail
\* but writes every non-header, non-obsolete entry of the source with cleared
\* translation and reports the fallback in the log, on every path.
C16_FallbackTakesWholeSource ==
    TranslatedPoMissing =>
        /\ pot_file.entries = FullyUntranslated(fallback_pot).entries
        /\ "[=] Trying fallback POT" \in log

\* what does hold: the fallback is logged, and what is written are the
\* entries of the fallback POT that await a translation
FallbackTakesUntranslated ==
    TranslatedPoMissing =>
        /\ KeySeq(pot_file.entries) =
              KeySeq(SelectSeq(fallback_pot.entries,
                               LAMBDA e : ~Exempt(e) /\ ~Translated(e)))
        /\ "[=] Trying fallback POT" \in log

\* ========================================================== commit_diff.py
\* babel's Message.id: the msgid, or for a plural message the pair (msgid,
\* msgid_plural); the context is not part of it. A string id is held here as
\* a tuple of one element.
message_id(e) ==
    IF e.msgid_plural # "" THEN <<e.msgid, e.msgid_plural>> ELSE <<e.msgid>>

\* line 35
old_ids(old_cat) ==
    {message_id(old_cat.entries[i]) :
        i \in {j \in DOMAIN old_cat.entries : old_cat.entries[j].msgid # ""}}

\* lines 45-46: the messages of the new catalog that are added to the diff
added_messages(new_cat, old_cat) ==
    SelectSeq(new_cat.entries,
              LAMBDA e : e.msgid # "" /\ message_id(e) \notin old_ids(old_cat))

\* lines 47-54: the message handed to diff_cat.add(); no context is passed
diff_message(e) ==
    POEntry(e.msgid, e.msgstr, None, e.msgid_plural, e.occurrences, e.flags)

\* Catalog.add() with a message whose key, the msgid, is in the catalog
\* already: the message in the catalog takes the plural id of the new one
\* when it has none, and the flags and locations of both
merge_message(current, message) ==
    [current EXCEPT
        !.msgid_plural = IF @ = "" THEN message.msgid_plural ELSE @,
        !.msgstr_plural = IF current.msgid_plural = "" /\ message.msgid_plural # ""
                          THEN message.msgstr_plural ELSE @,
        !.flags = @ \cup message.flags]

\* Catalog.add() for the messages in turn
RECURSIVE catalog_add(_, _)
catalog_add(cat, messages) ==
    IF messages = <<>> THEN cat
    ELSE LET m == diff_message(Head(messages))
             same == {i \in DOMAIN cat : cat[i].msgid = m.msgid}
         IN catalog_add(
                IF same = {} THEN Append(cat, m)
                ELSE [i \in DOMAIN cat |->
                        IF i \in same THEN merge_message(cat[i], m) ELSE cat[i]],
                Tail(messages))

\* lines 26-59: extract_diff(new_pot, old_pot, output_diff); written tells
\* whether line 58 was reached
extract_diff(new, old) ==
    IF new = NoSuchFile \/ old = NoSuchFile
    THEN [written |-> FALSE, diff |-> NoSuchFile, count |-> 0,
          log |-> {"[ERROR] No such file or directory"}]
    ELSE [written |-> TRUE,
          diff |-> [metadata |-> new.metadata,
                    entries |-> catalog_add(<<>>, added_messages(new, old))],
          count |-> Len(added_messages(new, old)),
          log |-> {}]

\* lines 122-125
report(n) ==
    IF n > 0 THEN "Generated diff with new messages"
    ELSE "No translation changes found between these commits."

\* ----------------------------------------------------- commit_diff's inputs
\* the messages pybabel extracts: _("a"), _C("c", "a"), _P("b", "bs"), _("d")
DiffPool ==
    {Singular(None, "a", <<>>), Singular("c", "a", <<>>),
     Plural(None, "b", "bs", << <<>>, <<>> >>), Singular(None, "d", <<>>)}

DiffFiles ==
    {NoSuchFile} \cup
    {[metadata |-> PotMetadata, entries |-> s] :
        s \in {q \in SeqsUpTo(DiffPool, MaxBase) : UniqueKeys(q)}}

DiffInit ==
    /\ ToolsOff
    /\ new_pot \in DiffFiles
    /\ old_pot \in DiffFiles
    /\ diff_pot = NoSuchFile
    /\ count = 0
    /\ log = {}
    /\ stage = "start"
    /\ trans_po = NoSuchFile
    /\ fallback_pot = NoSuchFile
    /\ original_po = NoFile
    /\ pot_file = NoFile
    /\ translated_po = NoFile
    /\ output = NoFile
    /\ updated_count = 0
    /\ missing_count = 0
    /\ missing = <<>>
    /\ warned = {}
    /\ script = "none"
    /\ first_script = "none"
    /\ run = 1

\* main(), lines 119-125: count = extract_diff(...) and the report
ExtractDiff ==
    /\ stage = "start"
    /\ LET r == extract_diff(new_pot, old_pot) IN
        /\ diff_pot' = r.diff
        /\ count' = r.count
        /\ log' = r.log \cup {report(r.count)}
    /\ stage' = "diffed"
    /\ script' = "commit_diff"
    /\ UNCHANGED <<merge_vars_but_script, new_pot, old_pot, trans_po, fallback_pot,
                   tool_vars>>

DiffNext == ExtractDiff

DiffSpec == DiffInit /\ [][DiffNext]_vars

\* ------------------------------------------------------------------ C17
\* both POT files were there and the diff was computed
Diffed == stage = "diffed" /\ new_pot # NoSuchFile /\ old_pot # NoSuchFile

\* the new POT with one more message at its end
WithMessage(pot, e) == [pot EXCEPT !.entries = Append(@, e)]

\* a message whose identity key is in neither POT
NewKeyMessages ==
    {e \in DiffPool :
        make_key(e) \notin Keys(new_pot.entries) \cup Keys(old_pot.entries)}

\* C17: extract_diff returns 0 and writes an empty diff iff every identity
\* key (context, msgid, msgid_plural) of the new POT is in the old POT; one
\* more entry with a new identity key in the new POT makes the count and the
\* number of written entries larger by one; the count is the number of
\* entries written.
C17_DiffCountsNewKeys ==
    Diffed =>
        /\ (count = 0) <=> (Keys(new_pot.entries) \subseteq Keys(old_pot.entries))
        /\ (diff_pot.entries = <<>>) <=>
              (Keys(new_pot.entries) \subseteq Keys(old_pot.entries))
        /\ count = Len(diff_pot.entries)
        /\ \A e \in NewKeyMessages :
              LET more == extract_diff(WithMessage(new_pot, e), old_pot) IN
                /\ more.count = count + 1
                /\ Len(more.diff.entries) = Len(diff_pot.entries) + 1

\* what does hold: the count is the number of messages of the new POT whose
\* id (msgid, msgid_plural), without the context, is not an id of the old POT
CountsNewIds ==
    Diffed =>
        count = Cardinality({i \in DOMAIN new_pot.entries :
                    message_id(new_pot.entries[i]) \notin old_ids(old_pot)})

\* ------------------------------------------------------------------ C18
\* extract_diff was called with the old or the new POT missing
InputMissing ==
    stage = "diffed" /\ (new_pot = NoSuchFile \/ old_pot = NoSuchFile)

\* C18: when the old or the new POT does not exist, main does not report
\* "No translation changes found", as it does for zero new entries, and no
\* diff file is written.
C18_MissingInputIsFatal ==
    InputMissing =>
        /\ "No translation changes found between these commits." \notin log
        /\ diff_pot = NoSuchFile

\* the part that holds: no diff file is written
MissingInputWritesNoDiff == InputMissing => diff_pot = NoSuchFile

\* ------------------------------------------------------------------ C19
\* the context of an entry, absent taken as empty
Context(e) == IF e.msgctxt = None THEN "" ELSE e.msgctxt

\* the identity key: (context or empty, msgid, msgid_plural)
IdentityKey(e) == <<Context(e), e.msgid, e.msgid_plural>>

\* the entries of the source and of the translated file of an extraction
ExtractionEntries ==
    {original_po.entries[i] : i \in DOMAIN original_po.entries}
        \cup {trans_po.entries[i] : i \in DOMAIN trans_po.entries}

\* C19: make_key gives two entries equal keys iff they have the same msgid,
\* the same msgid_plural and the same context, where no msgctxt and an
\* empty msgctxt are the same context.
C19_AbsentContextIsEmptyContext ==
    \A e1, e2 \in ExtractionEntries :
        (make_key(e1) = make_key(e2)) <=> (IdentityKey(e1) = IdentityKey(e2))

\* what does hold: keys are equal iff msgctxt, msgid and msgid_plural are
\* equal, an absent msgctxt being equal to an absent one only
KeysEqualIffFieldsEqual ==
    \A e1, e2 \in ExtractionEntries :
        (make_key(e1) = make_key(e2)) <=>
            /\ e1.msgctxt = e2.msgctxt
            /\ e1.msgid = e2.msgid
            /\ e1.msgid_plural = e2.msgid_plural

\* ===================== scripts/split_pot.py, translate_chunk.py,
\* ===================== scripts/merge_chunks_to_po.py
\* split_pot.py lines 30-35: one JSON item per entry with a msgid. The items
\* are held as one list, in the order in which merge_chunks_to_po.py reads
\* the sorted batch files.
split_pot(pot) ==
    LET es == SelectSeq(pot.entries, LAMBDA e : e.msgid # "") IN
    [i \in DOMAIN es |->
        [msgid |-> es[i].msgid,
         msgctxt |-> IF es[i].msgctxt = None THEN "" ELSE es[i].msgctxt]]

\* translate_chunk.py lines 101-110: every item gets a msgstr
translate_chunk(items, text) ==
    [i \in DOMAIN items |->
        [msgid |-> items[i].msgid, msgctxt |-> items[i].msgctxt, msgstr |-> text[i]]]

\* merge_chunks_to_po.py lines 10-14: mapping[d["msgid"]], the last item of
\* a msgid wins
mapping(items, msgid) ==
    items[CHOOSE i \in DOMAIN items :
            /\ items[i].msgid = msgid
            /\ \A j \in DOMAIN items : items[j].msgid = msgid => j <= i].msgstr

\* merge_chunks_to_po.py lines 9-20
merge_chunks_to_po(pot, items) ==
    save([metadata |-> NoMetadata,
          entries |-> [i \in DOMAIN pot.entries |->
                IF \E j \in DOMAIN items : items[j].msgid = pot.entries[i].msgid
                THEN [pot.entries[i] EXCEPT !.msgstr = mapping(items, pot.entries[i].msgid)]
                ELSE pot.entries[i]]])

\* what the model answers for an item: a text, another text, or nothing
ChunkTexts == {LlmText, <<"z">>, <<>>}

ChunkPots == DiffFiles \ {NoSuchFile}

NoChunks == [metadata |-> "json", entries |-> <<>>]

ChunkInit ==
    /\ original_po \in ChunkPots
    /\ translated_po = NoChunks
    /\ pot_file = NoFile
    /\ output = NoFile
    /\ updated_count = 0
    /\ missing_count = 0
    /\ missing = <<>>
    /\ warned = {}
    /\ script = "none"
    /\ first_script = "none"
    /\ run = 1
    /\ stage = "start"
    /\ trans_po = NoSuchFile
    /\ fallback_pot = NoSuchFile
    /\ log = {}
    /\ DiffOff
    /\ ToolsOff

chunk_frame ==
    <<original_po, pot_file, updated_count, missing_count, missing, warned,
      first_script, run, trans_po, fallback_pot, log, diff_vars, tool_vars>>

\* python scripts/split_pot.py input.pot outdir/
SplitPot ==
    /\ stage = "start"
    /\ translated_po' = [NoChunks EXCEPT !.entries = split_pot(original_po)]
    /\ stage' = "split"
    /\ script' = "split_pot"
    /\ UNCHANGED <<chunk_frame, output>>

\* python scripts/translate_chunk.py for every batch
TranslateChunks ==
    /\ stage = "split"
    /\ \E text \in [DOMAIN translated_po.entries -> ChunkTexts] :
          translated_po' = [translated_po EXCEPT !.entries = translate_chunk(@, text)]
    /\ stage' = "chunks translated"
    /\ script' = "translate_chunk"
    /\ UNCHANGED <<chunk_frame, output>>

\* python scripts/merge_chunks_to_po.py input.pot outdir/ out.po
MergeChunks ==
    /\ stage = "chunks translated"
    /\ output' = merge_chunks_to_po(original_po, translated_po.entries)
    /\ stage' = "chunks merged"
    /\ script' = "merge_chunks_to_po"
    /\ UNCHANGED <<chunk_frame, translated_po>>

ChunkNext == SplitPot \/ TranslateChunks \/ MergeChunks

ChunkSpec == ChunkInit /\ [][ChunkNext]_vars

\* ------------------------------------------------------------------ C20
\* C20: merge_po.py gives an entry a translation only from a result whose
\* identity key (context, msgid, msgid_plural) is the entry's: an entry
\* never receives the translation of an entry with the same msgid and
\* another msgctxt.
C20_TranslationFromEqualKey ==
    script = "merge_po" =>
        \A i \in DOMAIN Base :
            Out[i].msgstr # Base[i].msgstr =>
                \E j \in DOMAIN translated_po.entries :
                    /\ IdentityKey(translated_po.entries[j]) = IdentityKey(Base[i])
                    /\ translated_po.entries[j].msgstr = Out[i].msgstr

\* the same for the path split_pot.py, translate_chunk.py,
\* merge_chunks_to_po.py, where it fails in the same way
ChunksTranslationFromEqualKey ==
    stage = "chunks merged" =>
        \A i \in DOMAIN Base :
            Out[i].msgstr # Base[i].msgstr =>
                \E j \in DOMAIN translated_po.entries :
                    /\ translated_po.entries[j].msgid = Base[i].msgid
                    /\ translated_po.entries[j].msgctxt = Context(Base[i])
                    /\ translated_po.entries[j].msgstr = Out[i].msgstr

\* what does hold for merge_po.py: a translation comes from a result with
\* the entry's msgid
TranslationFromEqualMsgid ==
    script = "merge_po" =>
        \A i \in DOMAIN Base :
            Out[i].msgstr # Base[i].msgstr =>
                \E j \in DOMAIN translated_po.entries :
                    /\ translated_po.entries[j].msgid = Base[i].msgid
                    /\ translated_po.entries[j].msgstr = Out[i].msgstr

\* ================================================ scripts/glossary_apply.py
\* Texts the glossary tools search are sequences of one-character strings.
\* The space is the only character here that is not a word character (\w);
\* "A" is the upper case of "a".
MaxText == 3        \* characters in a msgstr
MaxTerms == 2       \* terms in a glossary
MaxBatch == 2       \* the batch size of translate.py

Alphabet == {"a", "A", "s", "e", "k", " "}

IsWordChar(c) == c # " "

lower(c) == IF c = "A" THEN "a" ELSE c

\* lines 7-21: for a term of letters re.escape(src) is src itself and no
\* replacement of line 17 applies; the rule is (pat, src, tgt) with
\* pat = \b src (?:e?s)? \b, IGNORECASE
compile_term_patterns(terms) ==
    [i \in DOMAIN terms |-> [pat |-> terms[i][1], src |-> terms[i][1], tgt |-> terms[i][2]]]

\* \b at the position before character q of s, when character q-1 is a
\* word character
word_ends(s, q) == q > Len(s) \/ ~IsWordChar(s[q])

\* the position after the match of pat that starts at character p of s,
\* 0 when there is none: \b, the letters of src in any case, "es" or "s" or
\* nothing, \b
match_end(pat, s, p) ==
    LET n == Len(pat)
        q == p + n
        lit == /\ q - 1 <= Len(s)
               /\ \A i \in 1..n : lower(s[p + i - 1]) = lower(pat[i])
               /\ (p = 1 \/ ~IsWordChar(s[p - 1]))
    IN IF ~lit THEN 0
       ELSE IF q + 1 <= Len(s) /\ lower(s[q]) = "e" /\ lower(s[q + 1]) = "s"
               /\ word_ends(s, q + 2) THEN q + 2
       ELSE IF q <= Len(s) /\ lower(s[q]) = "s" /\ word_ends(s, q + 1) THEN q + 1
       ELSE IF word_ends(s, q) THEN q
       ELSE 0

\* pat.search(s)
pat_search(pat, s) == \E p \in 1..Len(s) : match_end(pat, s, p) > 0

\* pat.sub(tgt, s): every match, from the left, is replaced by tgt
RECURSIVE pat_sub_from(_, _, _, _)
pat_sub_from(pat, tgt, s, p) ==
    IF p > Len(s) THEN <<>>
    ELSE IF match_end(pat, s, p) > 0
         THEN tgt \o pat_sub_from(pat, tgt, s, match_end(pat, s, p))
         ELSE <<s[p]>> \o pat_sub_from(pat, tgt, s, p + 1)

pat_sub(pat, tgt, s) == pat_sub_from(pat, tgt, s, 1)

\* the str operator "in"
contains(s, sub) ==
    \E p \in 1..(Len(s) + 1) :
        /\ p + Len(sub) - 1 <= Len(s)
        /\ \A i \in 1..Len(sub) : s[p + i - 1] = sub[i]

\* the replacement is made although the target term is in the msgstr
apply_rule_target_unchecked(rule, msgid, msgstr) ==
    IF pat_search(rule.pat, msgid) /\ pat_search(rule.pat, msgstr)
    THEN pat_sub(rule.pat, rule.tgt, msgstr)
    ELSE msgstr

\* lines 40-45: one rule applied to the msgstr of an entry
apply_rule(rule, msgid, msgstr) ==
    IF pat_search(rule.pat, msgid) /\ ~contains(msgstr, rule.tgt)
       /\ pat_search(rule.pat, msgstr)
    THEN pat_sub(rule.pat, rule.tgt, msgstr)
    ELSE msgstr

\* lines 40-45: the rules in turn
RECURSIVE apply_rules(_, _, _)
apply_rules(rules, msgid, msgstr) ==
    IF rules = <<>> THEN msgstr
    ELSE apply_rules(Tail(rules), msgid, apply_rule(Head(rules), msgid, msgstr))

\* lines 36-37: the entry is skipped
skipped(e) == e.msgid = <<>> \/ e.msgstr = <<>>

\* lines 23-27
ensure_header(metadata) ==
    IF metadata = NoMetadata
    THEN "Content-Type: text/plain; charset=UTF-8, Language: ko"
    ELSE metadata

\* lines 29-54: apply_glossary(gloss, in_po, out_po, dry)
apply_glossary(gloss, in_po, dry) ==
    LET rules == compile_term_patterns(gloss)
        corrected == [i \in DOMAIN in_po.entries |->
                        IF skipped(in_po.entries[i]) THEN in_po.entries[i]
                        ELSE [in_po.entries[i] EXCEPT
                                !.msgstr = apply_rules(rules, in_po.entries[i].msgid, @)]]
    IN [changed |-> Cardinality({i \in DOMAIN corrected :
                        corrected[i].msgstr # in_po.entries[i].msgstr}),
        out_po |-> IF dry THEN NoSuchFile
                   ELSE save([metadata |-> ensure_header(in_po.metadata),
                              entries |-> corrected]),
        log |-> IF dry THEN {"[DRY] would change entries (no file written)."}
                ELSE {"[OK] wrote"}]

\* ------------------------------------------------ the glossary tools' inputs
Texts == SeqsUpTo(Alphabet, MaxText)

\* glossary.json: a term, its plural covered by the pattern, and terms that
\* are each other's target
TermPool == {<< <<"a">>, <<"k">> >>, << <<"k">>, <<"a">> >>, << <<"a", "s">>, <<"k">> >>}

Glossaries ==
    {g \in SeqsUpTo(TermPool, MaxTerms) : \A i, j \in DOMAIN g : g[i][1] = g[j][1] => i = j}

TextEntry(msgid, msgstr) == POEntry(msgid, msgstr, None, "", <<>>, {})

MsgidPool == {<<"a">>, <<"A", "s">>, <<"k", " ", "a">>}

\* an entry that may stand before the entry under test
FirstEntryPool ==
    {TextEntry(<<"a">>, <<"a", "s">>), TextEntry(<<"a">>, <<"k">>)}

GlossaryFiles ==
    {[metadata |-> BaseMetadata, entries |-> first \o <<TextEntry(msgid, msgstr)>>] :
        first \in {<<>>} \cup {<<e>> : e \in FirstEntryPool},
        msgid \in MsgidPool, msgstr \in Texts}

GlossaryInit ==
    /\ original_po \in GlossaryFiles
    /\ glossary \in Glossaries
    /\ output = NoSuchFile
    /\ updated_count = 0
    /\ pc = "start"
    /\ log = {}
    /\ pot_file = NoFile
    /\ translated_po = NoFile
    /\ missing_count = 0
    /\ missing = <<>>
    /\ warned = {}
    /\ script = "none"
    /\ first_script = "none"
    /\ run = 1
    /\ trans_po = NoSuchFile
    /\ fallback_pot = NoSuchFile
    /\ stage = "off"
    /\ DiffOff
    /\ catalog = NoFile
    /\ work = <<>>
    /\ results = <<>>
    /\ attempt = 0
    /\ repo = "none"
    /\ src_text = <<>>
    /\ args = {}

glossary_frame ==
    <<original_po, glossary, pot_file, translated_po, missing_count, missing,
      warned, first_script, run, trans_po, fallback_pot, stage, diff_vars,
      catalog, work, results, attempt, repo, src_text, args>>

\* python scripts/glossary_apply.py glossary.json in.po out.po [--dry]
ApplyGlossary ==
    /\ pc = "start"
    /\ \E dry \in BOOLEAN :
        LET r == apply_glossary(glossary, original_po, dry) IN
            /\ output' = r.out_po
            /\ updated_count' = r.changed
            /\ log' = r.log
    /\ pc' = "applied"
    /\ script' = "glossary_apply"
    /\ UNCHANGED glossary_frame

\* =============================================== scripts/glossary_verify.py
\* lines 10-13: the pairs (term, entry) for which a "[WARN]" line is
\* printed; the two loops come to every pair once
glossary_verify(gloss, target_po) ==
    {<<k, i>> \in (DOMAIN gloss) \X (DOMAIN target_po.entries) :
        /\ ~contains(target_po.entries[i].msgstr, gloss[k][2])
        /\ contains(target_po.entries[i].msgid, gloss[k][1])}

\* python scripts/glossary_verify.py glossary.json target.po
VerifyGlossary ==
    /\ pc = "start"
    /\ warned' = glossary_verify(glossary, original_po)
    /\ pc' = "verified"
    /\ script' = "glossary_verify"
    /\ UNCHANGED <<original_po, glossary, pot_file, translated_po, missing_count,
                   missing, first_script, run, trans_po, fallback_pot, stage,
                   diff_vars, catalog, work, results, attempt, repo, src_text,
                   args, output, updated_count, log>>

GlossaryNext == ApplyGlossary \/ VerifyGlossary

GlossarySpec == GlossaryInit /\ [][GlossaryNext]_vars

\* ------------------------------------------------------------------ C21
\* the glossary was applied and the file written
Applied == pc = "applied" /\ output # NoSuchFile

\* the msgstr of entry i when the rules before rule k were applied
MsgstrBefore(i, k) ==
    apply_rules(SubSeq(compile_term_patterns(glossary), 1, k - 1),
                original_po.entries[i].msgid, original_po.entries[i].msgstr)

\* rule k replaces something in entry i
Fires(i, k) ==
    MsgstrBefore(i, k + 1) # MsgstrBefore(i, k)

\* the entries whose msgstr in the written file is not that of the input
ChangedEntries ==
    {i \in DOMAIN original_po.entries :
        output.entries[i].msgstr # original_po.entries[i].msgstr}

\* C21: apply_glossary changes a msgstr on account of a term only if the
\* term's pattern matches the msgid and the msgstr and the target is not in
\* the msgstr; an entry in whose msgstr every term has its target or has no
\* match is written unchanged; 'changed' is the number of entries whose
\* msgstr differs from the input.
C21_GlossaryChangesOnlyLeaks ==
    Applied =>
        /\ \A i \in DOMAIN original_po.entries : \A k \in DOMAIN glossary :
              Fires(i, k) =>
                  /\ pat_search(glossary[k][1], original_po.entries[i].msgid)
                  /\ ~contains(MsgstrBefore(i, k), glossary[k][2])
                  /\ pat_search(glossary[k][1], MsgstrBefore(i, k))
        /\ \A i \in DOMAIN original_po.entries :
              (\A k \in DOMAIN glossary :
                    \/ contains(original_po.entries[i].msgstr, glossary[k][2])
                    \/ ~pat_search(glossary[k][1], original_po.entries[i].msgstr))
                  => i \notin ChangedEntries
        /\ \A i \in ChangedEntries :
              \E k \in DOMAIN glossary :
                  pat_search(glossary[k][1], original_po.entries[i].msgid)
        /\ updated_count = Cardinality(ChangedEntries)

\* an entry was corrected in its plural form and counted, and an entry whose
\* msgid holds the term and whose msgstr holds the target was left alone
C21_Witness ==
    /\ Applied
    /\ updated_count = 1
    /\ \E i \in ChangedEntries :
          original_po.entries[i].msgstr = <<"a", "s">> /\ output.entries[i].msgstr = <<"k">>
    /\ \E i \in DOMAIN original_po.entries :
          /\ i \notin ChangedEntries
          /\ original_po.entries[i].msgstr = <<"k">>
          /\ pat_search(<<"a">>, original_po.entries[i].msgid)

\* ------------------------------------------------------------------ C22
\* the pairs (term, entry) in which the source form of the term appears in
\* the msgid, found as the correction finds it, and the target form is not
\* in the msgstr
Violations ==
    {<<k, i>> \in (DOMAIN glossary) \X (DOMAIN original_po.entries) :
        /\ pat_search(glossary[k][1], original_po.entries[i].msgid)
        /\ ~contains(original_po.entries[i].msgstr, glossary[k][2])}

\* C22: glossary_verify.py prints a warning for exactly the pairs (term,
\* entry) in which the source form, delimited by word boundaries, in any
\* case and with a plural suffix, is in the msgid and the target form is
\* not in the msgstr; it writes no catalog.
C22_WarnsPerViolation ==
    pc = "verified" => (warned = Violations /\ output = NoSuchFile)

\* what does hold: the warnings are the pairs in which the source term is a
\* substring of the msgid as it is spelt in the glossary, and no catalog is
\* written
WarnsPerSubstring ==
    pc = "verified" =>
        /\ warned = {<<k, i>> \in (DOMAIN glossary) \X (DOMAIN original_po.entries) :
                        /\ contains(original_po.entries[i].msgid, glossary[k][1])
                        /\ ~contains(original_po.entries[i].msgstr, glossary[k][2])}
        /\ output = NoSuchFile

\* ===================================== scripts/po_translate_local_llama.py
\* POEntry.translated() of polib: an obsolete or fuzzy entry is not
\* translated; else a msgstr that is not empty, or plural slots none of
\* which is empty, make it translated
translated(e) ==
    IF e.obsolete \/ "fuzzy" \in e.flags THEN FALSE
    ELSE IF e.msgstr # <<>> THEN TRUE
    ELSE IF e.msgstr_plural # <<>>
         THEN \A n \in DOMAIN e.msgstr_plural : e.msgstr_plural[n] # <<>>
         ELSE FALSE

\* lines 199-203
skip_entry(e, only_untranslated) ==
    only_untranslated /\ (e.obsolete \/ translated(e))

\* lines 197-212: the work list; idx counts from 1 here
work_list(infile, only_untranslated) ==
    LET idxs == {i \in DOMAIN infile.entries :
                    ~skip_entry(infile.entries[i], only_untranslated)}
        RECURSIVE items(_)
        items(i) ==
            IF i > Len(infile.entries) THEN <<>>
            ELSE (IF i \in idxs
                  THEN << [idx |-> i,
                           src_text |-> IF infile.entries[i].msgid_plural # ""
                                        THEN "" ELSE infile.entries[i].msgid,
                           plural_src_map |->
                               IF infile.entries[i].msgid_plural # ""
                               THEN <<infile.entries[i].msgid,
                                      infile.entries[i].msgid_plural>>
                               ELSE <<>>] >>
                  ELSE <<>>) \o items(i + 1)
    IN items(1)

\* the answer of the model to a source text: a text that tells its source.
\* The source texts here hold no placeholder and the glossary is empty
\* (--glossary not given), so that lines 153-157 and 161-165 hand the answer
\* on as it is.
llm(src) == <<"ko:", src>>

\* lines 146-166: translate_unit, when no request fails
translate_unit(item) ==
    IF item.plural_src_map # <<>>
    THEN [idx |-> item.idx, out_text |-> <<>>,
          out_plural |-> [n \in DOMAIN item.plural_src_map |->
                              llm(item.plural_src_map[n])]]
    ELSE [idx |-> item.idx, out_text |-> llm(item.src_text), out_plural |-> <<>>]

\* lines 225-231: one result written to its entry
write_result(e, r) ==
    [e EXCEPT
        !.msgstr = IF r.out_plural # <<>> THEN @ ELSE r.out_text,
        !.msgstr_plural =
            IF r.out_plural # <<>>
            THEN [n \in 1..(IF Len(@) > Len(r.out_plural) THEN Len(@)
                            ELSE Len(r.out_plural)) |->
                     IF n <= Len(r.out_plural) THEN r.out_plural[n] ELSE @[n]]
            ELSE @,
        !.flags = @ \ {"fuzzy"}]

\* the j-th result received goes to the entry of the j-th work item
written_back_by_arrival(entries, work_items, received) ==
    [i \in DOMAIN entries |->
        IF \E j \in DOMAIN received : work_items[j].idx = i
        THEN write_result(entries[i],
                 received[CHOOSE j \in DOMAIN received : work_items[j].idx = i])
        ELSE entries[i]]

\* lines 224-231: results is a dict keyed by idx, e = po[idx]
written_back(entries, work_items, received) ==
    [i \in DOMAIN entries |->
        IF \E j \in DOMAIN received : received[j].idx = i
        THEN write_result(entries[i],
                 received[CHOOSE j \in DOMAIN received : received[j].idx = i])
        ELSE entries[i]]

\* ---------------------------------------------------- the translator's input
TranslatePool ==
    {Singular(None, "a", <<>>), Singular(None, "d", <<>>),
     Singular(None, "d", BaseText),
     Decorated(Singular("c", "a", BaseText)),
     Obsolete(Singular("c", "a", BaseText)),
     Plural(None, "b", "bs", << <<>>, <<>> >>),
     Plural(None, "b", "bs", << BaseText, BaseText >>)}

TranslateFiles ==
    {[metadata |-> BaseMetadata, entries |-> q] :
        q \in {q \in SeqsUpTo(TranslatePool, MaxBase) : UniqueKeys(q) /\ ObsoleteLast(q)}}

TranslateInit ==
    /\ original_po \in TranslateFiles
    /\ args \in SUBSET {"--only-untranslated"}
    /\ catalog = NoFile
    /\ work = <<>>
    /\ results = <<>>
    /\ pc = "start"
    /\ output = NoSuchFile
    /\ glossary = <<>>
    /\ attempt = 0
    /\ repo = "none"
    /\ src_text = <<>>
    /\ log = {}
    /\ pot_file = NoFile
    /\ translated_po = NoFile
    /\ updated_count = 0
    /\ missing_count = 0
    /\ missing = <<>>
    /\ warned = {}
    /\ script = "none"
    /\ first_script = "none"
    /\ run = 1
    /\ trans_po = NoSuchFile
    /\ fallback_pot = NoSuchFile
    /\ stage = "off"
    /\ DiffOff

translate_frame ==
    <<original_po, args, glossary, attempt, repo, src_text, log, pot_file,
      translated_po, updated_count, missing_count, missing, warned, script,
      first_script, run, trans_po, fallback_pot, stage, diff_vars>>

\* lines 184-212: the file is read and the work list prepared
PrepareWork ==
    /\ pc = "start"
    /\ catalog' = original_po
    /\ work' = work_list(original_po, "--only-untranslated" \in args)
    /\ pc' = "pool"
    /\ UNCHANGED <<translate_frame, results, output>>

\* the work items no result was received for
Pending == {k \in DOMAIN work : \A j \in DOMAIN results : results[j].idx # work[k].idx}

\* lines 220-221: imap_unordered yields the result of any work item that is
\* still out
ReceiveResult ==
    /\ pc = "pool"
    /\ \E k \in Pending : results' = Append(results, translate_unit(work[k]))
    /\ UNCHANGED <<translate_frame, catalog, work, pc, output>>

\* lines 134 and 220: translate_unit raises in a worker after the last
\* retry, imap_unordered raises it in main, and main ends with the exception
RequestFails ==
    /\ pc = "pool"
    /\ Pending # {}
    /\ pc' = "aborted"
    /\ UNCHANGED <<translate_frame, catalog, work, results, output>>

\* lines 224-233: write-back and po.save(args.outfile)
WriteBackAndSave ==
    /\ pc = "pool"
    /\ Pending = {}
    /\ catalog' = [catalog EXCEPT !.entries = written_back(@, work, results)]
    /\ output' = save(catalog')
    /\ pc' = "saved"
    /\ UNCHANGED <<translate_frame, work, results>>

TranslateNext == PrepareWork \/ ReceiveResult \/ RequestFails \/ WriteBackAndSave

TranslateSpec == TranslateInit /\ [][TranslateNext]_vars

\* ------------------------------------------------------------------ C23
\* the indexes of the entries in the work list
WorkIdxs == {work[k].idx : k \in DOMAIN work}

\* entry i of the saved file holds the answer to its own source text
HoldsOwnResult(i) ==
    LET e == original_po.entries[i]
        o == output.entries[i]
    IN IF e.msgid_plural # ""
       THEN /\ Len(o.msgstr_plural) >= 2
            /\ o.msgstr_plural[1] = llm(e.msgid)
            /\ o.msgstr_plural[2] = llm(e.msgid_plural)
       ELSE o.msgstr = llm(e.msgid)

\* C23: in whatever order the pool delivers the results, the saved file
\* holds at every index of the work list the result computed from that
\* entry's own msgid (msgid and msgid_plural), and every other entry as it
\* was read.
C23_ResultsGoToTheirEntries ==
    pc = "saved" =>
        /\ Len(output.entries) = Len(original_po.entries)
        /\ \A i \in DOMAIN original_po.entries :
              IF i \in WorkIdxs THEN HoldsOwnResult(i)
              ELSE output.entries[i] = save(original_po).entries[i]

\* two results came in against the order of submission and the file was
\* saved
C23_Witness ==
    /\ pc = "saved"
    /\ Len(results) = 2
    /\ results[1].idx = work[2].idx
    /\ results[2].idx = work[1].idx

\* ------------------------------------------------------------------ C25
\* main has ended
Ended == pc \in {"saved", "aborted"}

\* C25: a request that fails for one entry does not abort the others: when
\* main has ended, the output file is saved with all results obtained, and
\* only entries whose request failed are left as they were.
C25_FailureLeavesTheRestTranslated ==
    Ended =>
        /\ output # NoSuchFile
        /\ \A j \in DOMAIN results : HoldsOwnResult(results[j].idx)

\* what does hold: after a failed request nothing is written
FailureWritesNothing == pc = "aborted" => output = NoSuchFile

\* ------------------------------------------------------------------ C27
\* the fields of an entry that a translation changes
SameTranslation(o, e) ==
    o.msgstr = e.msgstr /\ o.msgstr_plural = e.msgstr_plural /\ o.flags = e.flags

SavedOnlyUntranslated == pc = "saved" /\ "--only-untranslated" \in args

\* C27: with --only-untranslated every entry that has a translation,
\* whatever its flags, and every obsolete entry has the same msgstr,
\* msgstr_plural and flags in the output file as in the input.
C27_TranslatedEntriesKept ==
    SavedOnlyUntranslated =>
        \A i \in DOMAIN original_po.entries :
            (original_po.entries[i].obsolete \/ Translated(original_po.entries[i]))
                => SameTranslation(output.entries[i], original_po.entries[i])

\* what does hold: it is so for the entries that are not fuzzy
NonFuzzyTranslatedEntriesKept ==
    SavedOnlyUntranslated =>
        \A i \in DOMAIN original_po.entries :
            (/\ "fuzzy" \notin original_po.entries[i].flags
             /\ (original_po.entries[i].obsolete \/ Translated(original_po.entries[i])))
                => SameTranslation(output.entries[i], original_po.entries[i])

\* ============ ollama_generate (po_translate_local_llama.py lines 113-134)
\* ============ and call_ollama (translate_chunk.py lines 49-59)
retries == 3        \* ollama_generate(..., retries: int = 3, ...)
RETRIES == 3        \* translate_chunk.py
BACKOFF_SEC == 3    \* translate_chunk.py

\* the ways in which requests.post, raise_for_status, r.json() or the
\* reading of the answer raise
Failures == {"timeout", "http error", "bad json"}

\* data.get("response", "") of an answer; the field may be missing
Responses == {LlmText, PaddedLlmText, <<>>}

\* range(1, retries + 1) of the function that runs
max_attempts(function) == IF function = "ollama_generate" THEN retries ELSE RETRIES

\* the loop goes on after attempt n although n is the last of the range
another_attempt_after_last(function, n) == n <= max_attempts(function)

\* the for loop has an attempt after attempt n
another_attempt(function, n) == n < max_attempts(function)

\* line 133: min(2**attempt, 6); translate_chunk.py line 59: BACKOFF_SEC
backoff(function, n) ==
    IF function = "ollama_generate" THEN (IF 2^n < 6 THEN 2^n ELSE 6)
    ELSE BACKOFF_SEC

RetryInit ==
    /\ script \in {"ollama_generate", "call_ollama"}
    /\ attempt = 1
    /\ pc = "try"
    /\ results = <<>>
    /\ glossary = <<>>
    /\ catalog = NoFile
    /\ work = <<>>
    /\ repo = "none"
    /\ src_text = <<>>
    /\ args = {}
    /\ original_po = NoFile
    /\ output = NoFile
    /\ log = {}
    /\ pot_file = NoFile
    /\ translated_po = NoFile
    /\ updated_count = 0
    /\ missing_count = 0
    /\ missing = <<>>
    /\ warned = {}
    /\ first_script = "none"
    /\ run = 1
    /\ trans_po = NoSuchFile
    /\ fallback_pot = NoSuchFile
    /\ stage = "off"
    /\ DiffOff

retry_frame ==
    <<script, glossary, catalog, work, repo, src_text, args, original_po, output,
      log, pot_file, translated_po, updated_count, missing_count, missing,
      warned, first_script, run, trans_po, fallback_pot, stage, diff_vars>>

\* lines 127-130 / 52-55: the request is answered and the answer returned
RequestSucceeds ==
    /\ pc = "try"
    /\ \E response \in Responses :
          results' = results \o << [ev |-> "post", ok |-> TRUE, n |-> attempt],
                                   [ev |-> "return", value |-> strip(response)] >>
    /\ pc' = "returned"
    /\ UNCHANGED <<retry_frame, attempt>>

\* lines 131-132 / 56: the attempt raises
AttemptFails ==
    /\ pc = "try"
    /\ \E failure \in Failures :
          results' = Append(results, [ev |-> "post", ok |-> FALSE, n |-> attempt,
                                      failure |-> failure])
    /\ pc' = "except"
    /\ UNCHANGED <<retry_frame, attempt>>

\* ollama_generate lines 133-134: sleep, then the next attempt or, after
\* the loop, raise RuntimeError.  call_ollama lines 57-59: raise at the last
\* attempt, else sleep and go on.
HandleFailure ==
    /\ pc = "except"
    /\ IF script = "ollama_generate"
       THEN IF another_attempt(script, attempt)
            THEN /\ results' = Append(results, [ev |-> "sleep", sec |-> backoff(script, attempt)])
                 /\ attempt' = attempt + 1
                 /\ pc' = "try"
            ELSE /\ results' = results \o
                        << [ev |-> "sleep", sec |-> backoff(script, attempt)],
                           [ev |-> "raise"] >>
                 /\ attempt' = attempt
                 /\ pc' = "raised"
       ELSE IF another_attempt(script, attempt)
            THEN /\ results' = Append(results, [ev |-> "sleep", sec |-> backoff(script, attempt)])
                 /\ attempt' = attempt + 1
                 /\ pc' = "try"
            ELSE /\ results' = Append(results, [ev |-> "raise"])
                 /\ attempt' = attempt
                 /\ pc' = "raised"
    /\ UNCHANGED retry_frame

RetryNext == RequestSucceeds \/ AttemptFails \/ HandleFailure

RetrySpec == RetryInit /\ [][RetryNext]_vars

\* ------------------------------------------------------------------ C26
Posts == {i \in DOMAIN results : results[i].ev = "post"}

FailedPosts == {i \in Posts : ~results[i].ok}

\* C26: a request makes at most 3 attempts with a wait between attempts,
\* returns the first successful answer without a further attempt, raises
\* after the last failed attempt, never returns without an answer and
\* never goes on for ever.
C26_BoundedRetry ==
    /\ Cardinality(Posts) <= 3
    /\ attempt <= 3
    /\ \A i, j \in Posts :
          i < j => \E m \in (i + 1)..(j - 1) : results[m].ev = "sleep" /\ results[m].sec > 0
    /\ \A i \in DOMAIN results :
          /\ results[i].ev \in {"return", "raise"} => i = Len(results)
          /\ results[i].ev = "return" =>
                /\ i > 1
                /\ results[i - 1].ev = "post" /\ results[i - 1].ok
                /\ results[i].value \in Seq({"y", "z", " "})
          /\ (results[i].ev = "post" /\ results[i].ok) =>
                i < Len(results) /\ results[i + 1].ev = "return"
          /\ results[i].ev = "raise" => Cardinality(FailedPosts) = 3
    /\ pc = "returned" <=> (results # <<>> /\ results[Len(results)].ev = "return")
    /\ pc = "raised" <=> (results # <<>> /\ results[Len(results)].ev = "raise")
    /\ (pc = "except" /\ Cardinality(FailedPosts) = 3) => ENABLED HandleFailure

\* the request was answered at the third attempt after two waits
C26_Witness ==
    /\ pc = "returned"
    /\ Cardinality(Posts) = 3
    /\ Cardinality(FailedPosts) = 2

\* the request was given up after three failed attempts
C26_RaisedWitness ==
    /\ pc = "raised"
    /\ Cardinality(FailedPosts) = 3

\* ===================== scripts/translate_chunk.py, translate_ollama.py,
\* ===================== batch_translate_po_llamacpp.py, translate.py:
\* ===================== the backend gives no translation
\* what a request to the backend ends with
Outcomes == {"answer", "exception"}

\* the text of the exception, as str(ex)
ExceptionText == "timed out"

\* translate_chunk.py lines 102-109: the msgstr of one item
chunk_msgstr(msgid, outcome) ==
    IF msgid = "" THEN <<>>
    ELSE IF outcome = "answer" THEN llm(msgid)
    ELSE <<"[ERROR:", ExceptionText, "]">>

\* translate_chunk.py lines 100-110: every item of the chunk gets a msgstr
chunk_main(items, outcome) ==
    [i \in DOMAIN items |->
        [msgid |-> items[i].msgid, msgctxt |-> items[i].msgctxt,
         msgstr |-> chunk_msgstr(items[i].msgid, outcome[i])]]

\* batch_translate_po_llamacpp.py lines 58-74
translate_text(entry_text, outcome) ==
    IF outcome = "answer" THEN strip(llm(entry_text)) ELSE <<entry_text>>

\* batch_translate_po_llamacpp.py lines 77-96: main
batch_translate_main(po, outcome) ==
    save([metadata |-> po.metadata,
          entries |-> [i \in DOMAIN po.entries |->
              IF strip(po.entries[i].msgstr) # <<>> THEN po.entries[i]
              ELSE [po.entries[i] EXCEPT
                       !.msgstr = translate_text(po.entries[i].msgid, outcome[i])]]])

\* the result None of translate_entry, held as the empty tuple: both are
\* false in "if result"
NoResult == <<>>

\* translate_ollama.py lines 93-162: (entry.id, translation, entry.locations)
\* or None
translate_entry(entry, outcome) ==
    IF outcome = "answer"
    THEN <<message_id(entry), llm(entry.msgid), entry.occurrences>>
    ELSE NoResult

\* translate_ollama.py line 183, translate.py line 277
entries_to_translate(pot) == SelectSeq(pot.entries, LAMBDA e : e.msgid # "")

\* the message of po.add(id=msgid, string=translation, locations=locations)
result_message(t) ==
    POEntry(t[1][1], t[2], None, IF Len(t[1]) > 1 THEN t[1][2] ELSE "", t[3], {})

\* translate_ollama.py lines 209-212 and translate.py lines 309-312: the
\* results that are added to the catalog
added_results(tuples) ==
    LET kept == SelectSeq(tuples, LAMBDA t : t # NoResult)
    IN catalog_add(<<>>, [i \in DOMAIN kept |-> result_message(kept[i])])

\* translate_ollama.py lines 165-221: translate_pot_file; the entries of
\* the POT stand for the window entries_to_translate[START:END] of line 184
ollama_translate_pot_file(pot, outcome) ==
    LET todo == entries_to_translate(pot) IN
    [metadata |-> <<"Initial translation by AI.", pot.metadata>>,
     entries |-> added_results([i \in DOMAIN todo |-> translate_entry(todo[i], outcome[i])])]

\* what a batch request of translate.py ends with
BatchOutcomes == {"success", "request error", "unparseable JSON", "wrong count"}

\* translate.py lines 94-227: one tuple for every entry of the batch
translate_batch(entries, outcome) ==
    [i \in DOMAIN entries |->
        <<message_id(entries[i]),
          IF outcome = "success" THEN strip(llm(entries[i].msgid)) ELSE <<>>,
          entries[i].occurrences>>]

\* translate.py lines 230-244
create_batches(entries, batch_size) ==
    [k \in 1..((Len(entries) + batch_size - 1) \div batch_size) |->
        SubSeq(entries, (k - 1) * batch_size + 1,
               IF k * batch_size < Len(entries) THEN k * batch_size ELSE Len(entries))]

\* the lists of a list, one after the other
RECURSIVE concat(_)
concat(lists) ==
    IF lists = <<>> THEN <<>> ELSE Head(lists) \o concat(Tail(lists))

\* translate.py lines 309-316: the catalog that is written
batch_translated_po(pot, batch_results) ==
    [metadata |-> <<"Initial translation by AI (batch mode).", pot.metadata>>,
     entries |-> added_results(
                    concat([k \in DOMAIN batch_results |->
                               IF batch_results[k].tuples # <<>>
                               THEN batch_results[k].tuples ELSE <<>>]))]

\* ------------------------------------------------- the translators' inputs
\* the messages of the POT: _("a"), _C("c", "a"), _("d")
SourcePool ==
    {Singular(None, "a", <<>>), Singular("c", "a", <<>>), Singular(None, "d", <<>>)}

SourceFiles ==
    {[metadata |-> PotMetadata, entries |-> s] :
        s \in {q \in SeqsUpTo(SourcePool, MaxBase) : UniqueKeys(q)}}

Translators ==
    {"translate_chunk", "batch_translate_po_llamacpp", "translate_ollama", "translate"}

\* --batch-size of translate.py
BatchSizes == 1..MaxBatch

BackendInit ==
    /\ script \in Translators
    /\ original_po \in SourceFiles
    /\ args \in IF script = "translate"
                THEN {[batch_size |-> n] : n \in BatchSizes}
                ELSE {{}}
    /\ work = <<>>
    /\ results = <<>>
    /\ pc = "start"
    /\ output = NoSuchFile
    /\ glossary = <<>>
    /\ catalog = NoFile
    /\ attempt = 0
    /\ repo = "none"
    /\ src_text = <<>>
    /\ log = {}
    /\ pot_file = NoFile
    /\ translated_po = NoFile
    /\ updated_count = 0
    /\ missing_count = 0
    /\ missing = <<>>
    /\ warned = {}
    /\ first_script = "none"
    /\ run = 1
    /\ trans_po = NoSuchFile
    /\ fallback_pot = NoSuchFile
    /\ stage = "off"
    /\ DiffOff

backend_frame ==
    <<original_po, args, script, glossary, catalog, attempt, repo, src_text, log,
      pot_file, translated_po, updated_count, missing_count, missing, warned,
      first_script, run, trans_po, fallback_pot, stage, diff_vars>>

\* python scripts/translate_chunk.py chunk.json glossary.json out.json, on
\* the chunk split_pot.py made of the POT
TranslateChunkMain ==
    /\ script = "translate_chunk"
    /\ pc = "start"
    /\ \E outcome \in [DOMAIN split_pot(original_po) -> Outcomes] :
          /\ results' = outcome
          /\ output' = [NoChunks EXCEPT
                           !.entries = chunk_main(split_pot(original_po), outcome)]
    /\ pc' = "done"
    /\ UNCHANGED <<backend_frame, work>>

\* python batch_translate_po_llamacpp.py
BatchTranslateMain ==
    /\ script = "batch_translate_po_llamacpp"
    /\ pc = "start"
    /\ \E outcome \in [DOMAIN original_po.entries -> Outcomes] :
          /\ results' = outcome
          /\ output' = batch_translate_main(original_po, outcome)
    /\ pc' = "done"
    /\ UNCHANGED <<backend_frame, work>>

\* python translate_ollama.py
OllamaTranslatePotFile ==
    /\ script = "translate_ollama"
    /\ pc = "start"
    /\ \E outcome \in [DOMAIN entries_to_translate(original_po) -> Outcomes] :
          /\ results' = outcome
          /\ output' = ollama_translate_pot_file(original_po, outcome)
    /\ pc' = "done"
    /\ UNCHANGED <<backend_frame, work>>

\* translate.py lines 262-294: the POT is read and the batches are made
CreateBatches ==
    /\ script = "translate"
    /\ pc = "start"
    /\ work' = create_batches(entries_to_translate(original_po), args.batch_size)
    /\ pc' = "batches"
    /\ UNCHANGED <<backend_frame, results, output>>

\* translate.py lines 296-307: executor.map yields the results of the
\* batches in the order of the batches
TranslateBatch ==
    /\ script = "translate"
    /\ pc = "batches"
    /\ Len(results) < Len(work)
    /\ \E outcome \in BatchOutcomes :
          results' = Append(results,
                            [outcome |-> outcome,
                             tuples |-> translate_batch(work[Len(results) + 1], outcome)])
    /\ UNCHANGED <<backend_frame, work, pc, output>>

\* translate.py lines 309-317: the results are added and the PO is written
WriteBatchResults ==
    /\ script = "translate"
    /\ pc = "batches"
    /\ Len(results) = Len(work)
    /\ output' = batch_translated_po(original_po, results)
    /\ pc' = "done"
    /\ UNCHANGED <<backend_frame, work, results>>

BackendNext ==
    \/ TranslateChunkMain
    \/ BatchTranslateMain
    \/ OllamaTranslatePotFile
    \/ CreateBatches
    \/ TranslateBatch
    \/ WriteBatchResults

BackendSpec == BackendInit /\ [][BackendNext]_vars

\* ------------------------------------------------------------------ C24
\* the entries a translation was asked for
Requested == entries_to_translate(original_po)

\* no translation came back for entry i
NoTranslation(i) ==
    IF script = "translate"
    THEN results[((i - 1) \div args.batch_size) + 1].outcome # "success"
    ELSE results[i] = "exception"

\* the output holds the msgid of entry e with a blank translation
RecordedBlank(e) ==
    \E j \in DOMAIN output.entries :
        /\ output.entries[j].msgid = e.msgid
        /\ output.entries[j].msgstr = <<>>

\* C24: when the backend gives no translation for an entry, every
\* translator records the entry under its key with a blank translation,
\* never an error message, the source text or no entry.
C24_NoTranslationIsBlank ==
    pc = "done" =>
        \A i \in DOMAIN Requested : NoTranslation(i) => RecordedBlank(Requested[i])

\* what the translators record instead: translate_chunk.py the text of the
\* exception, batch_translate_po_llamacpp.py the source text, and
\* translate_ollama.py no entry unless another entry has the msgid
FailureRecordedPerTranslator ==
    pc = "done" =>
        \A i \in DOMAIN Requested : NoTranslation(i) =>
            CASE script = "translate_chunk" ->
                    output.entries[i].msgstr = <<"[ERROR:", ExceptionText, "]">>
              [] script = "batch_translate_po_llamacpp" ->
                    output.entries[i].msgstr = <<Requested[i].msgid>>
              [] script = "translate_ollama" ->
                    \A j \in DOMAIN output.entries :
                        output.entries[j].msgid = Requested[i].msgid =>
                            \E k \in DOMAIN Requested :
                                /\ k # i
                                /\ ~NoTranslation(k)
                                /\ Requested[k].msgid = Requested[i].msgid
              [] OTHER -> TRUE

\* translate.py blanks the entries of a failed batch when no two entries of
\* the POT have the same msgid
DistinctMsgids ==
    \A i, j \in DOMAIN Requested : Requested[i].msgid = Requested[j].msgid => i = j

TranslateBatchBlanksFailures ==
    (pc = "done" /\ script = "translate" /\ DistinctMsgids) =>
        \A i \in DOMAIN Requested : NoTranslation(i) => RecordedBlank(Requested[i])

\* ------------------------------------------------------------------ C28
\* C28: translate_pot_file of translate.py writes one entry for every entry
\* of the POT, under its msgid and in the order of the POT, whatever the
\* batch size and the outcomes of the batches; the batches are consecutive
\* and cover every entry once, every batch result has one tuple for every
\* entry of the batch, and a failed batch blanks its own entries only.
C28_OneEntryPerPotEntry ==
    script = "translate" =>
        /\ pc # "start" =>
              /\ concat(work) = Requested
              /\ \A k \in DOMAIN work : Len(work[k]) \in 1..args.batch_size
        /\ \A k \in DOMAIN results :
              /\ Len(results[k].tuples) = Len(work[k])
              /\ \A i \in DOMAIN work[k] :
                    results[k].tuples[i][1] = message_id(work[k][i])
        /\ pc = "done" =>
              /\ Len(output.entries) = Len(Requested)
              /\ \A i \in DOMAIN Requested :
                    /\ output.entries[i].msgid = Requested[i].msgid
                    /\ output.entries[i].msgstr =
                          IF NoTranslation(i) THEN <<>> ELSE llm(Requested[i].msgid)

\* what does hold: the batches and the batch results are as C28 says, and
\* so is the written file when no two entries of the POT have one msgid
BatchesCoverEveryEntry ==
    script = "translate" =>
        /\ pc # "start" =>
              /\ concat(work) = Requested
              /\ \A k \in DOMAIN work : Len(work[k]) \in 1..args.batch_size
        /\ \A k \in DOMAIN results :
              /\ Len(results[k].tuples) = Len(work[k])
              /\ \A i \in DOMAIN work[k] :
                    results[k].tuples[i][1] = message_id(work[k][i])
        /\ (pc = "done" /\ DistinctMsgids) =>
              /\ Len(output.entries) = Len(Requested)
              /\ \A i \in DOMAIN Requested :
                    /\ output.entries[i].msgid = Requested[i].msgid
                    /\ output.entries[i].msgstr =
                          IF NoTranslation(i) THEN <<>> ELSE llm(Requested[i].msgid)

\* two entries with one msgid and two contexts were written as one entry
SameMsgidWrittenOnce ==
    /\ script = "translate"
    /\ pc = "done"
    /\ Len(Requested) = 2
    /\ Len(output.entries) = 1

\* ========== scripts/po_translate_local_llama.py: mask_placeholders,
\* ========== unmask_placeholders
\* A text is a sequence of symbols: an ordinary character, the placeholder
\* %s, the character * and the tokens <PH_0>, <PH_1>, ... written as text.
\* No two symbols side by side spell a token or a %s, so the regular
\* expression and str.replace act on these texts symbol by symbol.
MaxSymbols == 4     \* symbols in a source text

Word == <<"w">>
Translation == <<"k">>
Percent == <<"%s">>
Star == <<"*">>

\* line 64: f"<PH_{idx}>"
token(idx) == <<"<PH_", idx, ">">>

\* [^*]+ from position p: the position of the next *, or 0
next_star(s, p) ==
    IF \E q \in p..Len(s) : s[q] = Star
    THEN CHOOSE q \in p..Len(s) : s[q] = Star /\ \A r \in p..(q - 1) : s[r] # Star
    ELSE 0

\* lines 45-56: PLACEHOLDER_RE matched at position p, the alternatives in
\* their order: %s, **bold**, *italic*; the last position of the match, or
\* 0 when there is none
placeholder_end(s, p) ==
    IF s[p] = Percent THEN p
    ELSE IF s[p] # Star THEN 0
    ELSE IF /\ p + 1 <= Len(s) /\ s[p + 1] = Star
            /\ next_star(s, p + 2) > p + 2
            /\ next_star(s, p + 2) + 1 <= Len(s)
            /\ s[next_star(s, p + 2) + 1] = Star
         THEN next_star(s, p + 2) + 1
    ELSE IF next_star(s, p + 1) > p + 1 THEN next_star(s, p + 1)
    ELSE 0

\* lines 61-66: PLACEHOLDER_RE.sub(_sub, text) from position p on
RECURSIVE mask_from(_, _, _)
mask_from(s, p, masks) ==
    IF p > Len(s) THEN [masked |-> <<>>, masks |-> masks]
    ELSE IF placeholder_end(s, p) = 0
    THEN LET rest == mask_from(s, p + 1, masks)
         IN [masked |-> <<s[p]>> \o rest.masked, masks |-> rest.masks]
    ELSE LET rest == mask_from(s, placeholder_end(s, p) + 1,
                               Append(masks, SubSeq(s, p, placeholder_end(s, p))))
         IN [masked |-> <<token(Len(masks))>> \o rest.masked, masks |-> rest.masks]

\* lines 59-67
mask_placeholders(s) == mask_from(s, 1, <<>>)

\* str.replace(old, new) for a token old
replace(s, old, new) ==
    concat([i \in DOMAIN s |-> IF s[i] = old THEN new ELSE <<s[i]>>])

\* lines 71-72: the tokens are replaced in the order of the masks
RECURSIVE unmask_from(_, _, _)
unmask_from(s, masks, i) ==
    IF i >= Len(masks) THEN s
    ELSE unmask_from(replace(s, token(i), masks[i + 1]), masks, i + 1)

\* lines 70-73
unmask_placeholders(s, masks) == unmask_from(s, masks, 0)

\* what the model answers for a masked text: the text with its ordinary
\* characters translated and every token kept
answer(masked) ==
    [i \in DOMAIN masked |-> IF masked[i] = Word THEN Translation ELSE masked[i]]

\* the source texts
SourceSymbols == {Word, Percent, Star, token(0), token(1)}

SourceTexts == SeqsUpTo(SourceSymbols, MaxSymbols)

PlaceholderInit ==
    /\ src_text \in SourceTexts
    /\ work = <<>>
    /\ results = <<>>
    /\ pc = "start"
    /\ output = NoFile
    /\ script = "translate_unit"
    /\ glossary = <<>>
    /\ catalog = NoFile
    /\ attempt = 0
    /\ repo = "none"
    /\ args = {}
    /\ original_po = NoFile
    /\ log = {}
    /\ pot_file = NoFile
    /\ translated_po = NoFile
    /\ updated_count = 0
    /\ missing_count = 0
    /\ missing = <<>>
    /\ warned = {}
    /\ first_script = "none"
    /\ run = 1
    /\ trans_po = NoSuchFile
    /\ fallback_pot = NoSuchFile
    /\ stage = "off"
    /\ DiffOff

placeholder_frame ==
    <<src_text, script, glossary, catalog, attempt, repo, args, original_po, log,
      pot_file, translated_po, updated_count, missing_count, missing, warned,
      first_script, run, trans_po, fallback_pot, stage, diff_vars>>

\* translate_unit line 161: masked, masks = mask_placeholders(src_text)
MaskPlaceholders ==
    /\ pc = "start"
    /\ work' = mask_placeholders(src_text).masks
    /\ results' = mask_placeholders(src_text).masked
    /\ pc' = "masked"
    /\ UNCHANGED <<placeholder_frame, output>>

\* translate_unit line 163: the model returns the masked text as it is, or
\* translated with the tokens kept
Generate ==
    /\ pc = "masked"
    /\ results' \in {results, answer(results)}
    /\ pc' = "answered"
    /\ UNCHANGED <<placeholder_frame, work, output>>

\* translate_unit lines 164-166, with an empty glossary
UnmaskPlaceholders ==
    /\ pc = "answered"
    /\ output' = unmask_placeholders(results, work)
    /\ pc' = "unmasked"
    /\ UNCHANGED <<placeholder_frame, work, results>>

PlaceholderNext == MaskPlaceholders \/ Generate \/ UnmaskPlaceholders

PlaceholderSpec == PlaceholderInit /\ [][PlaceholderNext]_vars

\* ------------------------------------------------------------------ C29
\* the source text with the characters outside its placeholders translated
RECURSIVE translated_from(_, _)
translated_from(s, p) ==
    IF p > Len(s) THEN <<>>
    ELSE IF placeholder_end(s, p) = 0
    THEN <<IF s[p] = Word THEN Translation ELSE s[p]>> \o translated_from(s, p + 1)
    ELSE SubSeq(s, p, placeholder_end(s, p))
            \o translated_from(s, placeholder_end(s, p) + 1)

\* C29: unmask_placeholders(mask_placeholders(text)) is the text, and when
\* the model keeps the tokens of the masked text every placeholder of the
\* source comes back unchanged and in its place, also for texts that have
\* the token syntax <PH_i> in them.
C29_UnmaskRestoresPlaceholders ==
    pc = "unmasked" =>
        /\ results = mask_placeholders(src_text).masked => output = src_text
        /\ results = answer(mask_placeholders(src_text).masked) =>
              output = translated_from(src_text, 1)

\* what does hold: the same for the texts that have no token in them
HasToken(s) == \E i \in DOMAIN s : Len(s[i]) = 3

UnmaskRestoresTextsWithoutTokens ==
    (pc = "unmasked" /\ ~HasToken(src_text)) =>
        /\ results = mask_placeholders(src_text).masked => output = src_text
        /\ results = answer(mask_placeholders(src_text).masked) =>
              output = translated_from(src_text, 1)

\* the text "<PH_0>%s" came back as "%s%s"
TokenInSourceReplaced ==
    /\ pc = "unmasked"
    /\ src_text = <<token(0), Percent>>
    /\ output = <<Percent, Percent>>

\* the text "*<PH_1>*%s" came back as "*%s*%s"
TokenInPlaceholderReplaced ==
    /\ pc = "unmasked"
    /\ src_text = <<Star, token(1), Star, Percent>>
    /\ output = <<Star, Percent, Star, Percent>>

\* ===================================================== commit_diff.py main
\* The repository has the commit of HEAD, the target commit and the base
\* commit; work holds the messages pybabel extracts at the two commits that
\* are compared. A git or pybabel command succeeds or raises
\* CalledProcessError; a checkout that fails leaves the repository at the
\* commit it was at.
CommandOutcomes == {"ok", "CalledProcessError"}

\* the commit that is checked out after "git checkout commit"
checked_out(current, commit, outcome) ==
    IF outcome = "ok" THEN commit ELSE current

\* lines 97-111 without the finally clause: an exception leaves main
leave_try_without_finally(exception) ==
    IF exception THEN "raised" ELSE "finally"

\* lines 97-111: the finally clause is entered with and without an exception
leave_try(exception) == "finally"

\* the step after a command of the try block
after_command(outcome, next) ==
    IF outcome = "ok" THEN next ELSE leave_try(TRUE)

\* line 91: main after current_head was recorded
MainInit ==
    /\ work \in [target : DiffFiles \ {NoSuchFile}, base : DiffFiles \ {NoSuchFile}]
    /\ repo = "HEAD"
    /\ pc = "checkout target"
    /\ stage = "no exception"
    /\ results = <<>>
    /\ new_pot = NoSuchFile
    /\ old_pot = NoSuchFile
    /\ diff_pot = NoSuchFile
    /\ count = 0
    /\ log = {}
    /\ script = "commit_diff"
    /\ glossary = <<>>
    /\ catalog = NoFile
    /\ attempt = 0
    /\ src_text = <<>>
    /\ args = {}
    /\ original_po = NoFile
    /\ output = NoFile
    /\ pot_file = NoFile
    /\ translated_po = NoFile
    /\ updated_count = 0
    /\ missing_count = 0
    /\ missing = <<>>
    /\ warned = {}
    /\ first_script = "none"
    /\ run = 1
    /\ trans_po = NoSuchFile
    /\ fallback_pot = NoSuchFile

main_frame ==
    <<work, script, glossary, catalog, attempt, src_text, args, original_po,
      output, pot_file, translated_po, updated_count, missing_count, missing,
      warned, first_script, run, trans_po, fallback_pot>>

\* the exception that is under way when the finally clause is entered
pending(outcome) ==
    IF outcome = "ok" THEN stage ELSE "exception"

\* line 100: run_git(["checkout", target_commit])
CheckoutTarget ==
    /\ pc = "checkout target"
    /\ \E outcome \in CommandOutcomes :
          /\ repo' = checked_out(repo, "target", outcome)
          /\ results' = Append(results, [ev |-> "checkout", commit |-> "target",
                                         outcome |-> outcome])
          /\ pc' = after_command(outcome, "pybabel new")
          /\ stage' = pending(outcome)
    /\ UNCHANGED <<main_frame, diff_vars, log>>

\* line 101: run_pybabel(new_pot, ...)
PybabelNew ==
    /\ pc = "pybabel new"
    /\ \E outcome \in CommandOutcomes :
          /\ new_pot' = IF outcome = "ok" THEN work[repo] ELSE new_pot
          /\ results' = Append(results, [ev |-> "pybabel", file |-> "new_pot",
                                         at |-> repo, outcome |-> outcome])
          /\ pc' = after_command(outcome, "checkout base")
          /\ stage' = pending(outcome)
    /\ UNCHANGED <<main_frame, repo, old_pot, diff_pot, count, log>>

\* line 105: run_git(["checkout", base_commit])
CheckoutBase ==
    /\ pc = "checkout base"
    /\ \E outcome \in CommandOutcomes :
          /\ repo' = checked_out(repo, "base", outcome)
          /\ results' = Append(results, [ev |-> "checkout", commit |-> "base",
                                         outcome |-> outcome])
          /\ pc' = after_command(outcome, "pybabel old")
          /\ stage' = pending(outcome)
    /\ UNCHANGED <<main_frame, diff_vars, log>>

\* line 106: run_pybabel(old_pot, ...)
PybabelOld ==
    /\ pc = "pybabel old"
    /\ \E outcome \in CommandOutcomes :
          /\ old_pot' = IF outcome = "ok" THEN work[repo] ELSE old_pot
          /\ results' = Append(results, [ev |-> "pybabel", file |-> "old_pot",
                                         at |-> repo, outcome |-> outcome])
          /\ pc' = IF outcome = "ok" THEN leave_try(FALSE) ELSE leave_try(TRUE)
          /\ stage' = pending(outcome)
    /\ UNCHANGED <<main_frame, repo, new_pot, diff_pot, count, log>>

\* lines 108-111: run_git(["checkout", current_head]); an exception of the
\* try block, or of this checkout, leaves main
RestoreHead ==
    /\ pc = "finally"
    /\ \E outcome \in CommandOutcomes :
          /\ repo' = checked_out(repo, "HEAD", outcome)
          /\ results' = Append(results, [ev |-> "checkout", commit |-> "HEAD",
                                         outcome |-> outcome])
          /\ pc' = IF pending(outcome) = "exception" THEN "raised" ELSE "extract_diff"
          /\ stage' = pending(outcome)
    /\ UNCHANGED <<main_frame, diff_vars, log>>

\* lines 114-119: extract_diff and the report
ExtractDiffAndReport ==
    /\ pc = "extract_diff"
    /\ LET r == extract_diff(new_pot, old_pot) IN
          /\ diff_pot' = r.diff
          /\ count' = r.count
          /\ log' = (log \cup r.log) \cup {report(r.count)}
    /\ results' = Append(results, [ev |-> "extract_diff", at |-> repo])
    /\ pc' = "ended"
    /\ UNCHANGED <<main_frame, repo, stage, new_pot, old_pot>>

MainNext ==
    \/ CheckoutTarget
    \/ PybabelNew
    \/ CheckoutBase
    \/ PybabelOld
    \/ RestoreHead
    \/ ExtractDiffAndReport

MainSpec == MainInit /\ [][MainNext]_vars

\* ------------------------------------------------------------------ C30
Events(ev) == {i \in DOMAIN results : results[i].ev = ev}

Restores == {i \in Events("checkout") : results[i].commit = "HEAD"}

Generated(file) ==
    {i \in Events("pybabel") : results[i].file = file /\ results[i].outcome = "ok"}

\* C30: after HEAD was recorded the repository is checked out back to it
\* before the diff is extracted and before main ends, whether the checkouts
\* of the target and base commits and the two extractions succeed or raise;
\* new_pot is generated at the target commit only, old_pot at the base
\* commit only, and extract_diff runs only after both were generated.
C30_HeadRestoredBeforeDiff ==
    /\ pc \in {"extract_diff", "ended", "raised"} =>
          /\ Restores # {}
          /\ (\A i \in Restores : results[i].outcome = "ok") => repo = "HEAD"
    /\ \A i \in Events("extract_diff") :
          /\ results[i].at = "HEAD"
          /\ \E j \in Restores : j < i /\ results[j].outcome = "ok"
          /\ \E j \in Generated("new_pot") : j < i
          /\ \E j \in Generated("old_pot") : j < i
    /\ \A i \in Events("pybabel") :
          /\ results[i].file = "new_pot" => results[i].at = "target"
          /\ results[i].file = "old_pot" => results[i].at = "base"
    /\ new_pot # NoSuchFile => new_pot = work.target
    /\ old_pot # NoSuchFile => old_pot = work.base

\* the extraction at the target commit raised, and main ended with the
\* repository back at HEAD and no diff extracted
C30_Witness ==
    /\ pc = "raised"
    /\ repo = "HEAD"
    /\ \E i \in Events("pybabel") :
          results[i].at = "target" /\ results[i].outcome = "CalledProcessError"
    /\ \E i \in Restores : results[i].outcome = "ok"
    /\ Events("extract_diff") = {}

\* both extractions succeeded and the diff was extracted at HEAD
C30_DiffWitness ==
    /\ pc = "ended"
    /\ repo = "HEAD"
    /\ count > 0

====
